---------------------------- MODULE Spec2Model ----------------------------
(***************************************************************************)
(* Call lifecycle and call-permission ledger of the WhatsApp / HubSpot     *)
(* calling backend: the REST handlers of routes/calls.js, the provider     *)
(* webhooks of routes/webhooks.js and the CallPermission model.            *)
(*                                                                         *)
(* The database is the pair of tables perms (call_permissions) and calls   *)
(* (calls) plus the append-only table logs (CallLog).  Rows are kept in    *)
(* creation order, so a row's id is its index and "ORDER BY createdAt      *)
(* DESC" is the highest index.  The store is the one models/index.js       *)
(* opens (dialect sqlite): an ENUM column is plain TEXT there, and         *)
(* Model.increment does its arithmetic in the database without refreshing  *)
(* the instance it was called on.                                          *)
(*                                                                         *)
(* A REST handler is an async function: every await is a point where other *)
(* handlers run.  The two REST handlers that read and then write           *)
(* (requestPermission, createOutbound) are modelled one await at a time in *)
(* handler slots; time (now) advances between any two steps.               *)
(* The call-status and recording webhooks are modelled both ways: handled  *)
(* without interruption, and one await at a time where two of them meet.   *)
(* Every webhook route runs behind validateTwilioSignature; a handler's    *)
(* broadcast over wss.clients is the message the one client last received. *)
(***************************************************************************)
EXTENDS Integers, Sequences, FiniteSets, TLC

VARIABLES
    now,      \* the wall clock, Date.now(), in ticks of half a day
    perms,    \* table call_permissions, in creation order
    calls,    \* table calls, in creation order
    logs,     \* table CallLog, in creation order
    procs,    \* the REST handlers in flight, one record per slot
    dials,    \* the ids of the Calls the telephony provider was asked to dial
    resp,     \* the latest response a REST handler sent, and to which request
    observer  \* the WebSocket client of wss.clients: closed, or the latest
              \* message sent to it

vars == <<now, perms, calls, logs, procs, dials, resp, observer>>

-----------------------------------------------------------------------------
(* Bounds of the model *)

MaxTime == 3            \* Spec: the clock stops here
MaxPerms == 2           \* Spec: rows of call_permissions
SeqMaxTime == 5         \* SpecSeq: the clock stops here
SeqMaxPerms == 3        \* SpecSeq: rows of call_permissions
OutMaxCallRows == 6     \* SpecOutbound: rows of calls and of CallLog
StatusMaxCallRows == 2  \* SpecStatus: rows of calls
StatusMaxLogs == 6      \* SpecStatus: rows of CallLog
EventsMaxLogs == 3      \* SpecEvents: rows of CallLog
EventsMaxTime == 1      \* SpecEvents: the clock stops here
ConsentMaxPerms == 2    \* SpecConsent: rows of call_permissions
ConsentMaxTime == 3     \* SpecConsent: the clock stops here
WeeklyMaxPerms == 3     \* SpecWeekly: rows of call_permissions
WeeklyMaxTime == 16     \* SpecWeekly: the clock stops here
NotifyMaxCallRows == 3  \* SpecNotify: rows of calls
NotifyMaxLogs == 6      \* SpecNotify: rows of CallLog
OrderMaxLogs == 4       \* SpecOrder: rows of CallLog
RecordingMaxLogs == 4   \* SpecRecording: rows of CallLog
RecordingMaxTime == 1   \* SpecRecording: the clock stops here
InMaxCallRows == 3      \* SpecInbound: rows of calls
InMaxLogs == 3          \* SpecInbound: rows of CallLog
CallsMaxLogs == 3       \* SpecCalls: rows of CallLog
CallsMaxTime == 2       \* SpecCalls: the clock stops here
ExpiryMaxCallRows == 2  \* SpecExpiry: rows of calls and of CallLog
ExpiryMaxTime == 29     \* SpecExpiry: the clock stops here
AuthMaxCallRows == 1     \* SpecAuth: rows of calls
AuthMaxLogs == 2         \* SpecAuth: rows of CallLog
DropsMaxLogs == 4        \* SpecDrops: rows of CallLog
StrangerMaxRows == 2     \* SpecStranger: rows of calls and of CallLog
StrangerMaxTime == 2     \* SpecStranger: the clock stops here
DurationMaxLogs == 4     \* SpecDuration: rows of CallLog
DurationMaxTime == 1     \* SpecDuration: the clock stops here
AccountMaxCallRows == 1  \* SpecAccount: rows of calls
AccountMaxLogs == 2      \* SpecAccount: rows of CallLog

-----------------------------------------------------------------------------
(* Program constants *)

\* one day is two ticks, so that 25 hours is a time strictly after 24 hours
Day == 2
maxRequestsPerDay == 1
maxRequestsPer7Days == 2
permissionExpiryDays == 7
DefaultMaxCalls == 5
MissedCallLimit == 4

Week == 7 * Day

\* a DATE column that is NULL
Null == -1

-----------------------------------------------------------------------------
(* Strings.  An address is a sequence of tokens; "whatsapp:" is the prefix *)
(* token the handlers add and strip.                                       *)

WA == "whatsapp:"

RECURSIVE StripFirst(_)
\* String.prototype.replace('whatsapp:', ''): drops the first occurrence
StripFirst(s) ==
    IF s = <<>> THEN <<>>
    ELSE IF Head(s) = WA THEN Tail(s)
    ELSE <<Head(s)>> \o StripFirst(Tail(s))

\* toNumber.startsWith('whatsapp:') ? toNumber : `whatsapp:${toNumber}`
FormatWhatsApp(s) ==
    IF s # <<>> /\ Head(s) = WA THEN s ELSE <<WA>> \o s

-----------------------------------------------------------------------------
(* Inputs *)

\* the rows of HubSpotContacts; "c9" is an id no row has
Contacts == {"c1"}
ContactIds == {"c1", "c9"}

\* destination addresses as a client or the provider sends them
Addresses == {<<"n1">>, <<WA, "n1">>, <<"n2">>}

\* CallStatus values a status callback carries
StatusInputs == {"ringing", "in-progress", "answered", "completed", "no-answer"}
\* the callbacks that bear on the missed-call count
MissedInputs == {"no-answer", "answered", "in-progress"}

\* CallDuration as sent: a decimal string, or absent
DurationInputs == {<<>>, <<"7">>}

\* RecordingUrl as sent: a string, or absent
NoUrl == <<>>
RecordingInputs == {NoUrl}

\* Body, ButtonPayload and From of a message callback
BodyInputs == {"VOICE_CALL_REQUEST", "hello"}
PayloadInputs == {"", "ACCEPTED", "REJECTED"}
FromInputs == {<<WA, "n1">>, <<WA, "n2">>}

\* the sid the provider gives the dial placed for Call row id
SidOf(id) == <<"CA", id>>
\* twilioCallSid: '' of a Call whose dial has not returned
NoSid == <<>>
\* a sid no Call row can have
UnknownSid == <<"CA", 0>>
\* the CallSids the provider gives to calls the customer places
InboundSids == {<<"CA", 101>>, <<"CA", 102>>}
\* the number the customer calls
OurNumber == <<WA, "n0">>

\* hubspotCallId: no engagement yet, and the engagement ids of the CRM
NoEngagement == ""
EngagementIds == {"e1"}

\* what twilioService.getCall returns: the provider's status and end time
\* (Null while the call has not ended), the end time as an offset back from now
ProviderStatuses == {"in-progress", "completed"}
ProviderEndOffsets == {0, 1}

-----------------------------------------------------------------------------
(* parseInt *)

DigitVal == [d \in {"0", "1", "2", "3", "4", "5", "6", "7", "8", "9"} |->
               CASE d = "0" -> 0 [] d = "1" -> 1 [] d = "2" -> 2 [] d = "3" -> 3
                 [] d = "4" -> 4 [] d = "5" -> 5 [] d = "6" -> 6 [] d = "7" -> 7
                 [] d = "8" -> 8 [] d = "9" -> 9]

RECURSIVE ParseDigits(_, _)
ParseDigits(s, acc) ==
    IF s = <<>> \/ Head(s) \notin DOMAIN DigitVal THEN acc
    ELSE ParseDigits(Tail(s), 10 * acc + DigitVal[Head(s)])

\* parseInt of a string of decimal digits
ParseInt(s) == ParseDigits(s, 0)

-----------------------------------------------------------------------------
(* models/CallPermission.js *)

TerminalStatuses == {"completed", "failed", "busy", "no-answer", "canceled"}

\* CallPermission.create({contactId, whatsappNumber, status: 'pending',
\*   requestedAt: new Date(), expiresAt: new Date(Date.now() + 7 days)})
NewPermission(contactId, number, t) ==
    [contactId |-> contactId, whatsappNumber |-> number, status |-> "pending",
     requestedAt |-> t, respondedAt |-> Null,
     expiresAt |-> t + permissionExpiryDays * Day,
     callsUsed |-> 0, maxCalls |-> DefaultMaxCalls,
     consecutiveMissedCalls |-> 0, twilioMessageSid |-> FALSE]

\* new Date() > this.expiresAt
isExpired(perm, t) == t > perm.expiresAt

\* canMakeCall with callsUsed <= maxCalls for callsUsed < maxCalls
canMakeCall_OffByOne(perm, t) ==
    /\ perm.status = "approved"
    /\ ~isExpired(perm, t)
    /\ perm.callsUsed <= perm.maxCalls
    /\ perm.consecutiveMissedCalls < MissedCallLimit

\* canMakeCall without the test of consecutiveMissedCalls
canMakeCall_NoMissedTest(perm, t) ==
    /\ perm.status = "approved"
    /\ ~isExpired(perm, t)
    /\ perm.callsUsed < perm.maxCalls

canMakeCall(perm, t) ==
    /\ perm.status = "approved"
    /\ ~isExpired(perm, t)
    /\ perm.callsUsed < perm.maxCalls
    /\ perm.consecutiveMissedCalls < MissedCallLimit

\* this.increment('callsUsed'): UPDATE ... SET callsUsed = callsUsed + 1 WHERE id
incrementCallsUsed(ps, id) ==
    [ps EXCEPT ![id].callsUsed = @ + 1]

\* this.increment('consecutiveMissedCalls')
incrementMissedCalls(ps, id) ==
    [ps EXCEPT ![id].consecutiveMissedCalls = @ + 1]

\* this.update({ consecutiveMissedCalls: 0 })
resetMissedCalls(ps, id) ==
    [ps EXCEPT ![id].consecutiveMissedCalls = 0]

\* the highest element of a non-empty set of row ids
MaxId(S) == CHOOSE i \in S : \A j \in S : j <= i

\* findOne({ where, order: [['createdAt', 'DESC']] }): 0 when no row matches
LatestOf(S) == IF S = {} THEN 0 ELSE MaxId(S)

\* the partial unique index left out: no approval is ever refused
ApprovedIndexConflict_Never(ps, id) == FALSE

\* the unique index on (contactId, whatsappNumber) where status = 'approved':
\* whether setting row id to 'approved' is refused
ApprovedIndexConflict(ps, id) ==
    \E j \in DOMAIN ps :
        /\ j # id
        /\ ps[j].status = "approved"
        /\ ps[j].contactId = ps[id].contactId
        /\ ps[j].whatsappNumber = ps[id].whatsappNumber

-----------------------------------------------------------------------------
(* models/Call.js, models/CallLog.js *)

\* Call.create of an outbound call: twilioCallSid '' until the dial returns
NewOutboundCall(contactId, toNumber, t) ==
    [twilioCallSid |-> NoSid, contactId |-> contactId, direction |-> "outbound",
     toNumber |-> toNumber, status |-> "initiated", duration |-> 0,
     startTime |-> t, endTime |-> Null, recordingUrl |-> NoUrl,
     hubspotCallId |-> NoEngagement]

\* Call.create of an inbound call: twilioCallSid is the CallSid of the event
NewInboundCall(CallSid, contactId, To, t) ==
    [twilioCallSid |-> CallSid, contactId |-> contactId, direction |-> "inbound",
     toNumber |-> To, status |-> "ringing", duration |-> 0,
     startTime |-> t, endTime |-> Null, recordingUrl |-> NoUrl,
     hubspotCallId |-> NoEngagement]

NewLog(callId, event, status) ==
    [callId |-> callId, event |-> event, status |-> status]

\* the unique index on twilioCallSid left out: no CallSid is ever refused
SidTaken_Never(cs, sid) == FALSE

\* the unique index on twilioCallSid: whether a row already holds sid
SidTaken(cs, sid) == \E i \in DOMAIN cs : cs[i].twilioCallSid = sid

\* Call.findOne({ where: { twilioCallSid } }): 0 when no row matches
FindCallBySid(cs, sid) ==
    LET S == {i \in DOMAIN cs : cs[i].twilioCallSid = sid}
    IN  IF S = {} THEN 0 ELSE CHOOSE i \in S : \A j \in S : i <= j

\* FindApprovedFor without whatsappNumber in the where clause
FindApprovedFor_AnyNumber(ps, contactId, number) ==
    LatestOf({i \in DOMAIN ps : /\ ps[i].contactId = contactId
                                /\ ps[i].status = "approved"})

\* CallPermission.findOne({ where: { contactId, whatsappNumber, status:
\*   'approved' }, order: [['createdAt', 'DESC']] })
FindApprovedFor(ps, contactId, number) ==
    LatestOf({i \in DOMAIN ps : /\ ps[i].contactId = contactId
                                /\ ps[i].whatsappNumber = number
                                /\ ps[i].status = "approved"})

\* CallPermission.findOne({ where: { contactId, status: 'approved' },
\*   order: [['createdAt', 'DESC']] })
FindApprovedOfContact(ps, contactId) ==
    LatestOf({i \in DOMAIN ps : /\ ps[i].contactId = contactId
                                /\ ps[i].status = "approved"})

\* FindPendingFor without status in the where clause
FindPendingFor_AnyStatus(ps, number) ==
    LatestOf({i \in DOMAIN ps : ps[i].whatsappNumber = number})

\* CallPermission.findOne({ where: { whatsappNumber, status: 'pending' },
\*   order: [['createdAt', 'DESC']] })
FindPendingFor(ps, number) ==
    LatestOf({i \in DOMAIN ps : /\ ps[i].whatsappNumber = number
                                /\ ps[i].status = "pending"})

\* RequestedSince without requestedAt in the where clause
RequestedSince_Ever(ps, contactId, number, since) ==
    {i \in DOMAIN ps : /\ ps[i].contactId = contactId
                       /\ ps[i].whatsappNumber = number}

\* RequestedSince with Op.gt for Op.gte
RequestedSince_Strict(ps, contactId, number, since) ==
    {i \in DOMAIN ps : /\ ps[i].contactId = contactId
                       /\ ps[i].whatsappNumber = number
                       /\ ps[i].requestedAt > since}

\* RequestedSince with the rows whose prompt was not sent left out
RequestedSince_SkipFailed(ps, contactId, number, since) ==
    {i \in DOMAIN ps : /\ ps[i].contactId = contactId
                       /\ ps[i].whatsappNumber = number
                       /\ ps[i].requestedAt >= since
                       /\ ps[i].status # "failed"}

\* CallPermission.findAll({ where: { contactId, whatsappNumber,
\*   requestedAt: { [Op.gte]: since } } })
RequestedSince(ps, contactId, number, since) ==
    {i \in DOMAIN ps : /\ ps[i].contactId = contactId
                       /\ ps[i].whatsappNumber = number
                       /\ ps[i].requestedAt >= since}

-----------------------------------------------------------------------------
(* The WebSocket client *)

\* JSON.stringify({ type, callId or permissionId, status })
Message(type, id, status) == [type |-> type, id |-> id, status |-> status]

\* no client is connected, or its readyState is not OPEN
Closed == Message("closed", 0, "")
\* the client is open and was sent nothing yet
Nothing == Message("none", 0, "")

\* wss.clients.forEach(client => { if (client.readyState === 1)
\*   client.send(message) })
Broadcast(client, message) == IF client = Closed THEN client ELSE message

-----------------------------------------------------------------------------
(* Handler slots *)

Idle == [pc |-> "idle", contactId |-> "", number |-> <<>>, permId |-> 0, callId |-> 0]

Running(pc, contactId, number, permId, callId) ==
    [pc |-> pc, contactId |-> contactId, number |-> number,
     permId |-> permId, callId |-> callId]

\* res.status(code).json(...) of handler op, for the request (contactId, number)
Response(op, code, contactId, number) ==
    [op |-> op, code |-> code, contactId |-> contactId, number |-> number]

NoResponse == Response("none", 0, "", <<>>)

Slots == DOMAIN procs

\* a request is taken by the first free slot
FreeSlot(p) ==
    /\ procs[p].pc = "idle"
    /\ \A q \in Slots : q < p => procs[q].pc # "idle"

InFlight(pcs) == Cardinality({q \in Slots : procs[q].pc \in pcs})

\* rows the handlers in flight have still to insert
PermsToCome == InFlight({"rp_weekly", "rp_create"})
CallsToCome == InFlight({"ob_create"})
LogsToCome == InFlight({"ob_create", "ob_dial", "ob_saveSid", "ob_log",
                        "ob_markFailed", "ob_logFailed"})

-----------------------------------------------------------------------------
(* routes/calls.js: POST /permission/request *)

\* the request arrives; findByPk(contactId); the 24-hour count
RequestPermissionStart(p, contactId, whatsappNumber, maxPerms) ==
    /\ FreeSlot(p)
    /\ Len(perms) + PermsToCome < maxPerms
    /\ LET cleanNumber == StripFirst(whatsappNumber)
           recentPermissions ==
               RequestedSince(perms, contactId, cleanNumber, now - Day)
       IN  IF contactId \notin Contacts
           THEN /\ resp' = Response("request", 404, contactId, cleanNumber)
                /\ UNCHANGED procs
           ELSE IF Cardinality(recentPermissions) >= maxRequestsPerDay
           THEN /\ resp' = Response("request", 429, contactId, cleanNumber)
                /\ UNCHANGED procs
           ELSE /\ procs' = [procs EXCEPT ![p] =
                       Running("rp_weekly", contactId, cleanNumber, 0, 0)]
                /\ UNCHANGED resp
    /\ UNCHANGED <<now, perms, calls, logs, dials, observer>>

\* RequestPermissionWeekly without the test of the 7-day count
RequestPermissionWeekly_NoCap(p) ==
    /\ procs[p].pc = "rp_weekly"
    /\ procs' = [procs EXCEPT ![p].pc = "rp_create"]
    /\ UNCHANGED <<now, perms, calls, logs, dials, resp, observer>>

\* the 7-day count
RequestPermissionWeekly(p) ==
    /\ procs[p].pc = "rp_weekly"
    /\ LET weeklyPermissions ==
               RequestedSince(perms, procs[p].contactId, procs[p].number,
                              now - Week)
       IN  IF Cardinality(weeklyPermissions) >= maxRequestsPer7Days
           THEN /\ resp' = Response("request", 429, procs[p].contactId,
                                    procs[p].number)
                /\ procs' = [procs EXCEPT ![p] = Idle]
           ELSE /\ procs' = [procs EXCEPT ![p].pc = "rp_create"]
                /\ UNCHANGED resp
    /\ UNCHANGED <<now, perms, calls, logs, dials, observer>>

\* CallPermission.create
RequestPermissionCreate(p) ==
    /\ procs[p].pc = "rp_create"
    /\ perms' = Append(perms,
                       NewPermission(procs[p].contactId, procs[p].number, now))
    /\ procs' = [procs EXCEPT ![p].pc = "rp_send", ![p].permId = Len(perms) + 1]
    /\ UNCHANGED <<now, calls, logs, dials, resp, observer>>

\* RequestPermissionSend whose catch block leaves the row as it is
RequestPermissionSend_KeepPending(p, sent) ==
    /\ procs[p].pc = "rp_send"
    /\ perms' = IF sent
                THEN [perms EXCEPT ![procs[p].permId].twilioMessageSid = TRUE]
                ELSE perms
    /\ resp' = Response("request", IF sent THEN 200 ELSE 500,
                        procs[p].contactId, procs[p].number)
    /\ procs' = [procs EXCEPT ![p] = Idle]
    /\ UNCHANGED <<now, calls, logs, dials, observer>>

\* sendCallPermissionRequest returns (sent) or throws, and the row is updated:
\* twilioMessageSid on success, status 'failed' in the catch block
RequestPermissionSend(p, sent) ==
    /\ procs[p].pc = "rp_send"
    /\ perms' = IF sent
                THEN [perms EXCEPT ![procs[p].permId].twilioMessageSid = TRUE]
                ELSE [perms EXCEPT ![procs[p].permId].status = "failed"]
    /\ resp' = Response("request", IF sent THEN 200 ELSE 500,
                        procs[p].contactId, procs[p].number)
    /\ procs' = [procs EXCEPT ![p] = Idle]
    /\ UNCHANGED <<now, calls, logs, dials, observer>>

-----------------------------------------------------------------------------
(* routes/calls.js: POST /outbound *)

\* the request arrives; findByPk(contactId); the permission check
CreateOutboundStart(p, contactId, toNumber, maxCallRows, maxLogs) ==
    /\ FreeSlot(p)
    /\ Len(calls) + CallsToCome < maxCallRows
    /\ Len(logs) + LogsToCome < maxLogs
    /\ LET whatsappNumber == FormatWhatsApp(toNumber)
           permission ==
               FindApprovedFor(perms, contactId, StripFirst(whatsappNumber))
       IN  IF contactId \notin Contacts
           THEN /\ resp' = Response("outbound", 404, contactId, whatsappNumber)
                /\ UNCHANGED procs
           ELSE IF permission = 0 \/ ~canMakeCall(perms[permission], now)
           THEN /\ resp' = Response("outbound", 403, contactId, whatsappNumber)
                /\ UNCHANGED procs
           ELSE /\ procs' = [procs EXCEPT ![p] =
                       Running("ob_create", contactId, whatsappNumber,
                               permission, 0)]
                /\ UNCHANGED resp
    /\ UNCHANGED <<now, perms, calls, logs, dials, observer>>

\* Call.create({ ..., twilioCallSid: '' }): refused by the unique index on
\* twilioCallSid while another row still holds ''
CreateOutboundCreate(p) ==
    /\ procs[p].pc = "ob_create"
    /\ IF SidTaken(calls, NoSid)
       THEN /\ resp' = Response("outbound", 500, procs[p].contactId,
                                procs[p].number)
            /\ procs' = [procs EXCEPT ![p] = Idle]
            /\ UNCHANGED calls
       ELSE /\ calls' = Append(calls, NewOutboundCall(procs[p].contactId,
                                                      procs[p].number, now))
            /\ procs' = [procs EXCEPT ![p].pc = "ob_dial",
                                      ![p].callId = Len(calls) + 1]
            /\ UNCHANGED resp
    /\ UNCHANGED <<now, perms, logs, dials, observer>>

\* CreateOutboundDial with the use counted before the dial returns
CreateOutboundDial_CountFirst(p, placed) ==
    /\ procs[p].pc = "ob_dial"
    /\ dials' = dials \cup {procs[p].callId}
    /\ perms' = incrementCallsUsed(perms, procs[p].permId)
    /\ procs' = [procs EXCEPT ![p].pc =
                   IF placed THEN "ob_saveSid" ELSE "ob_markFailed"]
    /\ UNCHANGED <<now, calls, logs, resp, observer>>

\* twilioService.makeOutboundCall returns a call (placed) or throws
CreateOutboundDial(p, placed) ==
    /\ procs[p].pc = "ob_dial"
    /\ dials' = dials \cup {procs[p].callId}
    /\ procs' = [procs EXCEPT ![p].pc =
                   IF placed THEN "ob_saveSid" ELSE "ob_markFailed"]
    /\ UNCHANGED <<now, perms, calls, logs, resp, observer>>

\* call.update({ twilioCallSid: twilioCall.sid })
CreateOutboundSaveSid(p) ==
    /\ procs[p].pc = "ob_saveSid"
    /\ calls' = [calls EXCEPT ![procs[p].callId].twilioCallSid =
                                  SidOf(procs[p].callId)]
    /\ procs' = [procs EXCEPT ![p].pc = "ob_log"]
    /\ UNCHANGED <<now, perms, logs, dials, resp, observer>>

\* CallLog.create({ event: 'call_initiated' })
CreateOutboundLog(p) ==
    /\ procs[p].pc = "ob_log"
    /\ logs' = Append(logs, NewLog(procs[p].callId, "call_initiated", "initiated"))
    /\ procs' = [procs EXCEPT ![p].pc = "ob_increment"]
    /\ UNCHANGED <<now, perms, calls, dials, resp, observer>>

\* permission.incrementCallsUsed(), then res.json(...)
CreateOutboundIncrement(p) ==
    /\ procs[p].pc = "ob_increment"
    /\ perms' = incrementCallsUsed(perms, procs[p].permId)
    /\ observer' = Broadcast(observer,
                     Message("call_initiated", procs[p].callId, "initiated"))
    /\ resp' = Response("outbound", 200, procs[p].contactId, procs[p].number)
    /\ procs' = [procs EXCEPT ![p] = Idle]
    /\ UNCHANGED <<now, calls, logs, dials>>

\* permission.incrementCallsUsed(), then client.send throws for the open
\* client: the broadcast is inside the try block, so control goes to
\* catch (twilioError)
CreateOutboundNotifyFailed(p) ==
    /\ procs[p].pc = "ob_increment"
    /\ observer # Closed
    /\ perms' = incrementCallsUsed(perms, procs[p].permId)
    /\ procs' = [procs EXCEPT ![p].pc = "ob_markFailed"]
    /\ UNCHANGED <<now, calls, logs, dials, resp, observer>>

\* CreateOutboundMarkFailed without the update of the row
CreateOutboundMarkFailed_Skip(p) ==
    /\ procs[p].pc = "ob_markFailed"
    /\ procs' = [procs EXCEPT ![p].pc = "ob_logFailed"]
    /\ UNCHANGED <<now, perms, calls, logs, dials, resp, observer>>

\* catch (twilioError): call.update({ status: 'failed' })
CreateOutboundMarkFailed(p) ==
    /\ procs[p].pc = "ob_markFailed"
    /\ calls' = [calls EXCEPT ![procs[p].callId].status = "failed"]
    /\ procs' = [procs EXCEPT ![p].pc = "ob_logFailed"]
    /\ UNCHANGED <<now, perms, logs, dials, resp, observer>>

\* CallLog.create({ event: 'call_failed' }); throw twilioError
CreateOutboundLogFailed(p) ==
    /\ procs[p].pc = "ob_logFailed"
    /\ logs' = Append(logs, NewLog(procs[p].callId, "call_failed", "failed"))
    /\ resp' = Response("outbound", 500, procs[p].contactId, procs[p].number)
    /\ procs' = [procs EXCEPT ![p] = Idle]
    /\ UNCHANGED <<now, perms, calls, dials, observer>>

-----------------------------------------------------------------------------
(* routes/webhooks.js: POST /call-status *)

\* the fields call.update(updates) writes
StatusUpdates(call, t, CallStatus, CallDuration, RecordingUrl) ==
    [call EXCEPT
        !.status = CallStatus,
        !.duration = IF CallDuration # <<>> THEN ParseInt(CallDuration) ELSE @,
        !.recordingUrl = IF RecordingUrl # NoUrl THEN RecordingUrl ELSE @,
        !.endTime = IF CallStatus = "completed" /\ call.endTime = Null
                    THEN t ELSE @]

\* the no-answer branch: permission.incrementMissedCalls() adds one in the
\* database and leaves the instance as it was read, so the test that follows
\* reads the count found by findOne
MissedCall(ps, contactId) ==
    LET permission == FindApprovedOfContact(ps, contactId)
        counted == incrementMissedCalls(ps, permission)
    IN  IF permission = 0 THEN ps
        ELSE IF ps[permission].consecutiveMissedCalls >= MissedCallLimit
             THEN [counted EXCEPT ![permission].status = "expired"]
             ELSE counted

\* the answered branch: permission.resetMissedCalls()
AnsweredCall(ps, contactId) ==
    LET permission == FindApprovedOfContact(ps, contactId)
    IN  IF permission = 0 THEN ps ELSE resetMissedCalls(ps, permission)

CallStatusEffect_CreateMissing(db, t, CallSid, CallStatus, CallDuration, RecordingUrl) ==
    LET id == FindCallBySid(db.calls, CallSid)
        call == db.calls[id]
    IN  IF id = 0
        THEN [db EXCEPT !.calls = Append(@, [NewInboundCall(CallSid, "", OurNumber, t)
                                                EXCEPT !.status = CallStatus])]
        ELSE [calls |-> [db.calls EXCEPT ![id] =
                  StatusUpdates(call, t, CallStatus, CallDuration, RecordingUrl)],
              logs |-> Append(db.logs, NewLog(id, "status_update", CallStatus)),
              perms |->
                  IF CallStatus = "no-answer" /\ call.direction = "outbound"
                  THEN MissedCall(db.perms, call.contactId)
                  ELSE IF CallStatus = "answered" /\ call.direction = "outbound"
                       THEN AnsweredCall(db.perms, call.contactId)
                       ELSE db.perms]

\* the tables after the handler has run on db = [perms, calls, logs] at time t
CallStatusEffect(db, t, CallSid, CallStatus, CallDuration, RecordingUrl) ==
    LET id == FindCallBySid(db.calls, CallSid)
        call == db.calls[id]
    IN  IF id = 0 THEN db
        ELSE [calls |-> [db.calls EXCEPT ![id] =
                  StatusUpdates(call, t, CallStatus, CallDuration, RecordingUrl)],
              logs |-> Append(db.logs, NewLog(id, "status_update", CallStatus)),
              perms |->
                  IF CallStatus = "no-answer" /\ call.direction = "outbound"
                  THEN MissedCall(db.perms, call.contactId)
                  ELSE IF CallStatus = "answered" /\ call.direction = "outbound"
                       THEN AnsweredCall(db.perms, call.contactId)
                       ELSE db.perms]

DB == [perms |-> perms, calls |-> calls, logs |-> logs]

CallStatusWebhook(CallSid, CallStatus, CallDuration, RecordingUrl, maxLogs) ==
    /\ Len(logs) + LogsToCome < maxLogs
    /\ LET after == CallStatusEffect(DB, now, CallSid, CallStatus,
                                     CallDuration, RecordingUrl)
           id == FindCallBySid(calls, CallSid)
       IN  /\ perms' = after.perms
           /\ calls' = after.calls
           /\ logs' = after.logs
           /\ observer' = IF id = 0 THEN observer
                          ELSE Broadcast(observer,
                                   Message("call_status_update", id, CallStatus))
    /\ UNCHANGED <<now, procs, dials, resp>>

-----------------------------------------------------------------------------
(* routes/webhooks.js: POST /messaging *)

\* the permissions after the handler has run; permission.update is refused
\* by the unique index when another row of the pair is approved
MessagingEffect(ps, t, From, Body, ButtonPayload) ==
    LET cleanNumber == StripFirst(From)
        permission == FindPendingFor(ps, cleanNumber)
        newStatus == IF ButtonPayload = "ACCEPTED" THEN "approved" ELSE "rejected"
    IN  IF ~(Body = "VOICE_CALL_REQUEST" /\ ButtonPayload # "") THEN ps
        ELSE IF permission = 0 THEN ps
        ELSE IF newStatus = "approved" /\ ApprovedIndexConflict(ps, permission)
             THEN ps
             ELSE [ps EXCEPT ![permission].status = newStatus,
                             ![permission].respondedAt = t]

MessagingWebhook_ClosesCalls(From, Body, ButtonPayload) ==
    /\ perms' = MessagingEffect(perms, now, From, Body, ButtonPayload)
    /\ LET permission == FindPendingFor(perms, StripFirst(From))
       IN  observer' = IF perms' = perms THEN observer
                       ELSE Broadcast(observer,
                                Message("permission_response", permission,
                                        perms'[permission].status))
    /\ calls' = [i \in DOMAIN calls |->
                    IF perms' # perms /\ calls[i].status \notin TerminalStatuses
                    THEN [calls[i] EXCEPT !.status = "canceled", !.endTime = now]
                    ELSE calls[i]]
    /\ UNCHANGED <<now, logs, procs, dials, resp>>

MessagingWebhook(From, Body, ButtonPayload) ==
    /\ perms' = MessagingEffect(perms, now, From, Body, ButtonPayload)
    /\ LET permission == FindPendingFor(perms, StripFirst(From))
       IN  observer' = IF perms' = perms THEN observer
                       ELSE Broadcast(observer,
                                Message("permission_response", permission,
                                        perms'[permission].status))
    /\ UNCHANGED <<now, calls, logs, procs, dials, resp>>

-----------------------------------------------------------------------------
(* routes/webhooks.js: POST /voice/inbound *)

\* HubSpotContact.findOne({ where: { whatsappNumber } }): "" when no row
ContactByNumber(number) == IF number = <<"n1">> THEN "c1" ELSE ""

\* the tables after the handler has run on db: Call.create is refused by the
\* unique index on twilioCallSid when a row holds CallSid already, and the
\* catch block answers without a row
InboundEffect(db, t, CallSid, From, To) ==
    LET contact == ContactByNumber(StripFirst(From))
    IN  IF SidTaken(db.calls, CallSid) THEN db
        ELSE [perms |-> db.perms,
              calls |-> Append(db.calls, NewInboundCall(CallSid, contact, To, t)),
              logs |-> Append(db.logs,
                  NewLog(Len(db.calls) + 1, "inbound_call_received", "ringing"))]

\* an inbound call of a caller who is a contact already; the TwiML sent is
\* the conference (a Call row was created) or the apology of the catch block
InboundVoiceWebhook(CallSid, From, To, maxCallRows, maxLogs) ==
    /\ ContactByNumber(StripFirst(From)) # ""
    /\ \/ SidTaken(calls, CallSid)
       \/ /\ Len(calls) + CallsToCome < maxCallRows
          /\ Len(logs) + LogsToCome < maxLogs
    /\ LET after == InboundEffect(DB, now, CallSid, From, To)
       IN  /\ calls' = after.calls
           /\ logs' = after.logs
           /\ resp' = Response(IF after.calls = calls THEN "inbound:say"
                                                      ELSE "inbound:conference",
                               200, ContactByNumber(StripFirst(From)), CallSid)
           /\ observer' = IF after.calls = calls THEN observer
                          ELSE Broadcast(observer,
                                   Message("incoming_call", Len(calls) + 1,
                                           "ringing"))
    /\ UNCHANGED <<now, perms, procs, dials>>

\* the HubSpotContacts row the handler syncs or creates for a caller no row has
SyncedContact == "c2"

\* the tables after the handler has run for a caller who is no contact yet,
\* in a run where no other handler creates the caller's row:
\* hubspotService.searchContactsByWhatsApp and createContact return
\* (resolved) or throw, and a throw is caught without a Call row; once a call
\* of the caller has a row, findOne finds the contact and the CRM is not asked
InboundStrangerEffect(db, t, CallSid, From, To, resolved) ==
    LET found == \E i \in DOMAIN db.calls : db.calls[i].contactId = SyncedContact
    IN  IF ~found /\ ~resolved THEN db
        ELSE IF SidTaken(db.calls, CallSid) THEN db
        ELSE [perms |-> db.perms,
              calls |-> Append(db.calls,
                  NewInboundCall(CallSid, SyncedContact, To, t)),
              logs |-> Append(db.logs,
                  NewLog(Len(db.calls) + 1, "inbound_call_received", "ringing"))]

InboundVoiceFromStranger(CallSid, From, To, resolved, maxCallRows, maxLogs) ==
    /\ ContactByNumber(StripFirst(From)) = ""
    /\ \/ SidTaken(calls, CallSid)
       \/ /\ Len(calls) + CallsToCome < maxCallRows
          /\ Len(logs) + LogsToCome < maxLogs
    /\ LET after == InboundStrangerEffect(DB, now, CallSid, From, To, resolved)
       IN  /\ calls' = after.calls
           /\ logs' = after.logs
           /\ resp' = Response(IF after.calls = calls THEN "inbound:say"
                                                      ELSE "inbound:conference",
                               200, "", CallSid)
           /\ observer' = IF after.calls = calls THEN observer
                          ELSE Broadcast(observer,
                                   Message("incoming_call", Len(calls) + 1,
                                           "ringing"))
    /\ UNCHANGED <<now, perms, procs, dials>>

-----------------------------------------------------------------------------
(* routes/calls.js: POST /:callSid/hangup, GET /status/:callSid *)

\* the tables after the handler has run: twilioService.hangupCall returns
\* (hungUp) or throws, and only after it returned are the row updated and the
\* hangup logged
HangupEffect(db, t, callSid, hungUp) ==
    LET id == FindCallBySid(db.calls, callSid)
    IN  IF id = 0 \/ ~hungUp THEN db
        ELSE [perms |-> db.perms,
              calls |-> [db.calls EXCEPT ![id].status = "completed",
                                         ![id].endTime = t],
              logs |-> Append(db.logs, NewLog(id, "call_hangup", "completed"))]

Hangup(callSid, hungUp, maxLogs) ==
    /\ Len(logs) + LogsToCome < maxLogs
    /\ LET id == FindCallBySid(calls, callSid)
           after == HangupEffect(DB, now, callSid, hungUp)
       IN  /\ calls' = after.calls
           /\ logs' = after.logs
           /\ resp' = Response("hangup",
                               IF id = 0 THEN 404 ELSE IF hungUp THEN 200 ELSE 500,
                               "", callSid)
    /\ UNCHANGED <<now, perms, procs, dials, observer>>

\* twilioCall.endTime: set once the provider's call has ended
ProviderEndTime(t, status, offset) ==
    IF status = "completed" THEN (IF t >= offset THEN t - offset ELSE 0)
    ELSE Null

\* the calls after the handler has run: twilioService.getCall returns
\* (fetched) the provider's status, duration and end time, or throws
GetStatusEffect(cs, callSid, fetched, status, duration, endTime) ==
    LET id == FindCallBySid(cs, callSid)
    IN  IF id = 0 \/ ~fetched \/ cs[id].status = status THEN cs
        ELSE [cs EXCEPT
                 ![id].status = status,
                 ![id].duration = IF duration # <<>> /\ ParseInt(duration) # 0
                                  THEN ParseInt(duration) ELSE @,
                 ![id].endTime = IF endTime # Null THEN endTime ELSE @]

GetStatus(callSid, fetched, status, duration, offset) ==
    /\ calls' = GetStatusEffect(calls, callSid, fetched, status, duration,
                                ProviderEndTime(now, status, offset))
    /\ resp' = Response("status",
                        IF FindCallBySid(calls, callSid) = 0 THEN 404 ELSE 200,
                        "", callSid)
    /\ UNCHANGED <<now, perms, logs, procs, dials, observer>>

-----------------------------------------------------------------------------
(* routes/hubspot.js: POST /calling/events, onCallEnded *)

\* Call.findByPk(callId), then call.update({ hubspotCallId, endTime: new
\* Date() }), refused by the unique index on hubspotCallId when another row
\* holds the engagement
OnCallEndedEffect(cs, t, callId, engagementId) ==
    IF callId \notin DOMAIN cs THEN cs
    ELSE IF \E j \in DOMAIN cs : j # callId /\ cs[j].hubspotCallId = engagementId
         THEN cs
         ELSE [cs EXCEPT ![callId].hubspotCallId = engagementId,
                         ![callId].endTime = t]

OnCallEnded(callId, engagementId) ==
    /\ calls' = OnCallEndedEffect(calls, now, callId, engagementId)
    /\ resp' = Response("onCallEnded",
           IF \E j \in DOMAIN calls :
                  j # callId /\ calls[j].hubspotCallId = engagementId
           THEN 500 ELSE 200, "", <<callId>>)
    /\ UNCHANGED <<now, perms, logs, procs, dials, observer>>

-----------------------------------------------------------------------------
(* routes/webhooks.js: POST /call-status and POST /recording/:callId, one *)
(* await at a time                                                         *)

\* a call-status handler in flight: the instance findOne returned and the
\* fields of req.body
StatusHandler(pc, callId, call, CallStatus, CallDuration, RecordingUrl) ==
    [pc |-> pc, callId |-> callId, call |-> call, CallStatus |-> CallStatus,
     CallDuration |-> CallDuration, RecordingUrl |-> RecordingUrl]

\* a recording handler in flight
RecordingHandler(pc, callId, RecordingUrl) ==
    [pc |-> pc, callId |-> callId, RecordingUrl |-> RecordingUrl]

\* rows of CallLog the webhook handlers in flight have still to insert
WebhookLogsToCome == InFlight({"cs_update", "cs_log", "rec_update", "rec_log"})

\* Call.findOne({ where: { twilioCallSid: CallSid } }); without a row the
\* handler answers OK at once
CallStatusFind(p, CallSid, CallStatus, CallDuration, RecordingUrl, maxLogs) ==
    /\ FreeSlot(p)
    /\ Len(logs) + LogsToCome + WebhookLogsToCome < maxLogs
    /\ LET id == FindCallBySid(calls, CallSid)
       IN  procs' = IF id = 0 THEN procs
                    ELSE [procs EXCEPT ![p] =
                             StatusHandler("cs_update", id, calls[id], CallStatus,
                                           CallDuration, RecordingUrl)]
    /\ UNCHANGED <<now, perms, calls, logs, dials, resp, observer>>

\* call.update(updates) that saves every column of the instance findOne
\* returned, not only the columns named in updates
CallStatusUpdate_WholeRow(p) ==
    /\ procs[p].pc = "cs_update"
    /\ calls' = [calls EXCEPT ![procs[p].callId] =
                    StatusUpdates(procs[p].call, now, procs[p].CallStatus,
                                  procs[p].CallDuration, procs[p].RecordingUrl)]
    /\ procs' = [procs EXCEPT ![p].pc = "cs_log"]
    /\ UNCHANGED <<now, perms, logs, dials, resp, observer>>

\* call.update(updates): UPDATE calls SET the columns named in updates; the
\* test !call.endTime reads the instance findOne returned
CallStatusUpdate(p) ==
    /\ procs[p].pc = "cs_update"
    /\ LET h == procs[p]
           updates == StatusUpdates(h.call, now, h.CallStatus, h.CallDuration,
                                    h.RecordingUrl)
       IN  calls' = [calls EXCEPT
               ![h.callId].status = updates.status,
               ![h.callId].duration =
                   IF h.CallDuration # <<>> THEN updates.duration ELSE @,
               ![h.callId].recordingUrl =
                   IF h.RecordingUrl # NoUrl THEN updates.recordingUrl ELSE @,
               ![h.callId].endTime =
                   IF h.CallStatus = "completed" /\ h.call.endTime = Null
                   THEN updates.endTime ELSE @]
    /\ procs' = [procs EXCEPT ![p].pc = "cs_log"]
    /\ UNCHANGED <<now, perms, logs, dials, resp, observer>>

\* CallLog.create({ event: 'status_update' }) and the permission branches;
\* a completed call goes on to hubspotService.logCallActivity
CallStatusLog(p) ==
    /\ procs[p].pc = "cs_log"
    /\ LET h == procs[p]
       IN  /\ logs' = Append(logs, NewLog(h.callId, "status_update", h.CallStatus))
           /\ perms' = IF h.CallStatus = "no-answer" /\ h.call.direction = "outbound"
                       THEN MissedCall(perms, h.call.contactId)
                       ELSE IF h.CallStatus = "answered"
                               /\ h.call.direction = "outbound"
                            THEN AnsweredCall(perms, h.call.contactId)
                            ELSE perms
           /\ procs' = [procs EXCEPT ![p].pc =
                           IF h.CallStatus = "completed" THEN "cs_crm"
                                                         ELSE "cs_notify"]
    /\ UNCHANGED <<now, calls, dials, resp, observer>>

\* hubspotService.logCallActivity returns or throws; a failure is caught and
\* written to the logger only
CallStatusCrm(p, logged) ==
    /\ procs[p].pc = "cs_crm"
    /\ procs' = [procs EXCEPT ![p].pc = "cs_notify"]
    /\ UNCHANGED <<now, perms, calls, logs, dials, resp, observer>>

\* the broadcast of call_status_update, then res.status(200).send('OK')
CallStatusNotify(p) ==
    /\ procs[p].pc = "cs_notify"
    /\ observer' = Broadcast(observer,
           Message("call_status_update", procs[p].callId, procs[p].CallStatus))
    /\ procs' = [procs EXCEPT ![p] = Idle]
    /\ UNCHANGED <<now, perms, calls, logs, dials, resp>>

\* Call.findByPk(callId); without a row or without RecordingUrl the handler
\* answers OK at once
RecordingFind(p, callId, RecordingUrl, maxLogs) ==
    /\ FreeSlot(p)
    /\ Len(logs) + LogsToCome + WebhookLogsToCome < maxLogs
    /\ procs' = IF callId \in DOMAIN calls /\ RecordingUrl # NoUrl
                THEN [procs EXCEPT ![p] =
                         RecordingHandler("rec_update", callId, RecordingUrl)]
                ELSE procs
    /\ UNCHANGED <<now, perms, calls, logs, dials, resp, observer>>

\* call.update({ recordingUrl: RecordingUrl })
RecordingUpdate(p) ==
    /\ procs[p].pc = "rec_update"
    /\ calls' = [calls EXCEPT ![procs[p].callId].recordingUrl =
                                  procs[p].RecordingUrl]
    /\ procs' = [procs EXCEPT ![p].pc = "rec_log"]
    /\ UNCHANGED <<now, perms, logs, dials, resp, observer>>

\* CallLog.create({ event: 'recording_available' }), then res OK
RecordingLog(p) ==
    /\ procs[p].pc = "rec_log"
    /\ logs' = Append(logs, NewLog(procs[p].callId, "recording_available", ""))
    /\ procs' = [procs EXCEPT ![p] = Idle]
    /\ UNCHANGED <<now, perms, calls, dials, resp, observer>>

-----------------------------------------------------------------------------
(* routes/webhooks.js: POST /voice/outbound/:callId, POST /conference/:callId *)
(* and POST /recording/:callId, each handled without interruption            *)

\* Call.findByPk(callId): 404 without a row; an answered leg is announced to
\* the client; no table is written
OutboundVoiceWebhook(callId, CallStatus) ==
    /\ resp' = Response("voice/outbound",
                        IF callId \in DOMAIN calls THEN 200 ELSE 404,
                        "", <<CallStatus>>)
    /\ observer' = IF callId \in DOMAIN calls /\ CallStatus = "answered"
                   THEN Broadcast(observer,
                            Message("call_answered", callId, CallStatus))
                   ELSE observer
    /\ UNCHANGED <<now, perms, calls, logs, procs, dials>>

\* the tables after the conference handler has run on db
ConferenceEffect(db, callId, StatusCallbackEvent) ==
    IF callId \notin DOMAIN db.calls THEN db
    ELSE [db EXCEPT !.logs = Append(@,
              NewLog(callId, "conference_" \o StatusCallbackEvent, ""))]

ConferenceWebhook(callId, StatusCallbackEvent, maxLogs) ==
    /\ Len(logs) + LogsToCome < maxLogs
    /\ logs' = ConferenceEffect(DB, callId, StatusCallbackEvent).logs
    /\ UNCHANGED <<now, perms, calls, procs, dials, resp, observer>>

\* the tables after the recording handler has run on db
RecordingEffect(db, callId, RecordingUrl) ==
    IF callId \notin DOMAIN db.calls \/ RecordingUrl = NoUrl THEN db
    ELSE [db EXCEPT !.calls[callId].recordingUrl = RecordingUrl,
                    !.logs = Append(@, NewLog(callId, "recording_available", ""))]

RecordingWebhook(callId, RecordingUrl, maxLogs) ==
    /\ Len(logs) + LogsToCome < maxLogs
    /\ LET after == RecordingEffect(DB, callId, RecordingUrl)
       IN  /\ calls' = after.calls
           /\ logs' = after.logs
    /\ UNCHANGED <<now, perms, procs, dials, resp, observer>>

-----------------------------------------------------------------------------
(* middleware/twilioValidator.js and middleware/errorHandler.js *)

\* config.twilio.authToken, set
authToken == "token"

\* the header of a request that carries none
NoSignature == <<>>

\* the X-Twilio-Signature of a request: a keyed digest of its URL and its
\* parameters, which only the holder of the key can compute
Sign(token, url, params) == <<token, url, params>>

\* twilio.validateRequest(authToken, twilioSignature, url, params)
validateRequest(token, signature, url, params) ==
    signature = Sign(token, url, params)

validateTwilioSignature_HeaderOnly(token, signature, url, params) ==
    IF token = "" THEN TRUE
    ELSE signature # NoSignature

\* TRUE when the middleware calls next(), FALSE when it calls next(error)
validateTwilioSignature(token, signature, url, params) ==
    IF token = "" THEN TRUE
    ELSE IF signature = NoSignature THEN FALSE
    ELSE validateRequest(token, signature, url, params)

\* a POST to a webhook endpoint
Request(url, params, signature) ==
    [url |-> url, params |-> params, signature |-> signature]

\* errorHandler on TwilioValidationError: 403, and the handler never ran
RejectWebhook(req) ==
    /\ resp' = Response("webhook", 403, "", req.url)
    /\ UNCHANGED <<now, perms, calls, logs, procs, dials, observer>>

\* the route of req.url, behind the middleware
ReceiveWebhook(req, maxCallRows, maxLogs) ==
    LET passed == validateTwilioSignature(authToken, req.signature, req.url,
                                          req.params)
        route == req.url[1]
    IN  \/ /\ ~passed
           /\ RejectWebhook(req)
        \/ /\ passed /\ route = "/voice/inbound"
           /\ InboundVoiceWebhook(req.params.CallSid, req.params.From,
                                  req.params.To, maxCallRows, maxLogs)
        \/ /\ passed /\ route = "/voice/outbound"
           /\ OutboundVoiceWebhook(req.url[2], req.params.CallStatus)
        \/ /\ passed /\ route = "/call-status"
           /\ CallStatusWebhook(req.params.CallSid, req.params.CallStatus,
                                <<>>, NoUrl, maxLogs)
        \/ /\ passed /\ route = "/messaging"
           /\ MessagingWebhook(req.params.From, req.params.Body,
                               req.params.ButtonPayload)
        \/ /\ passed /\ route = "/conference"
           /\ ConferenceWebhook(req.url[2], req.params.StatusCallbackEvent,
                                maxLogs)
        \/ /\ passed /\ route = "/recording"
           /\ RecordingWebhook(req.url[2], req.params.RecordingUrl, maxLogs)

-----------------------------------------------------------------------------
(* The clock *)

Tick(step, maxTime) ==
    /\ now + step <= maxTime
    /\ now' = now + step
    /\ UNCHANGED <<perms, calls, logs, procs, dials, resp, observer>>

-----------------------------------------------------------------------------
(* The steps of the handlers, over their inputs *)

InitWith(numProcs) ==
    /\ now = 0
    /\ perms = <<>>
    /\ calls = <<>>
    /\ logs = <<>>
    /\ procs = [p \in 1..numProcs |-> Idle]
    /\ dials = {}
    /\ resp = NoResponse
    /\ observer = Closed

\* the state after construction with a WebSocket client connected and open
InitObserved ==
    /\ now = 0
    /\ perms = <<>>
    /\ calls = <<>>
    /\ logs = <<>>
    /\ procs = [p \in 1..1 |-> Idle]
    /\ dials = {}
    /\ resp = NoResponse
    /\ observer = Nothing

RequestPermissionSteps(contactIds, addresses, maxPerms) ==
    \E p \in Slots :
        \/ \E c \in contactIds, n \in addresses :
               RequestPermissionStart(p, c, n, maxPerms)
        \/ RequestPermissionWeekly(p)
        \/ RequestPermissionCreate(p)
        \/ \E sent \in BOOLEAN : RequestPermissionSend(p, sent)

CreateOutboundSteps(contactIds, addresses, maxCallRows, maxLogs) ==
    \E p \in Slots :
        \/ \E c \in contactIds, n \in addresses :
               CreateOutboundStart(p, c, n, maxCallRows, maxLogs)
        \/ CreateOutboundCreate(p)
        \/ \E placed \in BOOLEAN : CreateOutboundDial(p, placed)
        \/ CreateOutboundSaveSid(p)
        \/ CreateOutboundLog(p)
        \/ CreateOutboundIncrement(p)
        \/ CreateOutboundMarkFailed(p)
        \/ CreateOutboundLogFailed(p)

\* the state after construction with two handler slots and a WebSocket
\* client connected and open
InitRace ==
    /\ now = 0
    /\ perms = <<>>
    /\ calls = <<>>
    /\ logs = <<>>
    /\ procs = [p \in 1..2 |-> Idle]
    /\ dials = {}
    /\ resp = NoResponse
    /\ observer = Nothing

CallStatusSteps(statuses, maxLogs) ==
    \E p \in Slots :
        \/ \E i \in DOMAIN calls, st \in statuses :
               CallStatusFind(p, calls[i].twilioCallSid, st, <<>>, NoUrl, maxLogs)
        \/ CallStatusUpdate(p)
        \/ CallStatusLog(p)
        \/ \E logged \in BOOLEAN : CallStatusCrm(p, logged)
        \/ CallStatusNotify(p)

RecordingSteps(urls, maxLogs) ==
    \E p \in Slots :
        \/ \E id \in DOMAIN calls, u \in urls : RecordingFind(p, id, u, maxLogs)
        \/ RecordingUpdate(p)
        \/ RecordingLog(p)

CreateOutboundNotifyFailures ==
    \E p \in Slots : CreateOutboundNotifyFailed(p)

CallSids == {SidOf(i) : i \in DOMAIN calls} \cup {UnknownSid}

CallStatusEvents(statuses, durations, maxLogs) ==
    \E sid \in CallSids, st \in statuses, d \in durations, r \in RecordingInputs :
        CallStatusWebhook(sid, st, d, r, maxLogs)

MessagingEvents(payloads) ==
    \E f \in FromInputs, b \in BodyInputs, bp \in payloads :
        MessagingWebhook(f, b, bp)

InboundVoiceEvents(sids, maxCallRows, maxLogs) ==
    \E sid \in sids, f \in FromInputs :
        InboundVoiceWebhook(sid, f, OurNumber, maxCallRows, maxLogs)

\* the calls of a caller who is no contact, with the CRM answering or failing
InboundStrangerEvents(sids, maxCallRows, maxLogs) ==
    \E sid \in sids, resolved \in BOOLEAN :
        InboundVoiceFromStranger(sid, <<WA, "n2">>, OurNumber, resolved,
                                 maxCallRows, maxLogs)

\* the call-status callbacks for the CallSids the rows hold
StatusEventsOfRows(statuses, durations, maxLogs) ==
    \E i \in DOMAIN calls, st \in statuses, d \in durations, r \in RecordingInputs :
        CallStatusWebhook(calls[i].twilioCallSid, st, d, r, maxLogs)

HangupRequests(sids, maxLogs) ==
    \E sid \in sids, hungUp \in BOOLEAN : Hangup(sid, hungUp, maxLogs)

GetStatusRequests(sids) ==
    \E sid \in sids, fetched \in BOOLEAN, st \in ProviderStatuses,
       off \in ProviderEndOffsets :
        GetStatus(sid, fetched, st, <<>>, off)

OnCallEndedEvents ==
    \E id \in (DOMAIN calls) \cup {0}, e \in EngagementIds : OnCallEnded(id, e)

\* StatusCallbackEvent of a conference callback
ConferenceInputs == {"start", "join", "end"}

\* the :callId of a callback's path: a row's id, or an id no row has
PathCallIds == (DOMAIN calls) \cup {0, Len(calls) + 1}

ConferenceEvents(maxLogs) ==
    \E id \in PathCallIds, ev \in ConferenceInputs :
        ConferenceWebhook(id, ev, maxLogs)

RecordingEvents(urls, maxLogs) ==
    \E id \in PathCallIds, r \in urls : RecordingWebhook(id, r, maxLogs)

-----------------------------------------------------------------------------
(* SpecSeq: permission requests handled one after another *)

InitSeq == InitWith(1)

NextSeq ==
    \/ RequestPermissionSteps(ContactIds, Addresses, SeqMaxPerms)
    \/ Tick(1, SeqMaxTime)

SpecSeq == InitSeq /\ [][NextSeq]_vars

-----------------------------------------------------------------------------
(* Spec: two permission requests at a time, and the customer's replies *)

Init == InitWith(2)

Next ==
    \/ RequestPermissionSteps(ContactIds, Addresses, MaxPerms)
    \/ MessagingEvents(PayloadInputs)
    \/ Tick(1, MaxTime)

Spec == Init /\ [][Next]_vars

-----------------------------------------------------------------------------
(* SpecOutbound: one permission, two outbound requests at a time, and a    *)
(* clock that steps past the permission's expiry                           *)

NextOutbound ==
    \/ RequestPermissionSteps({"c1"}, {<<"n1">>}, 1)
    \/ MessagingEvents({"ACCEPTED"})
    \/ CreateOutboundSteps(ContactIds, Addresses, OutMaxCallRows, OutMaxCallRows)
    \/ Tick(Week + 1, Week + 1)

SpecOutbound == Init /\ [][NextOutbound]_vars

-----------------------------------------------------------------------------
(* SpecStatus: one permission, outbound requests one at a time, and a run  *)
(* of no-answer, answered and in-progress callbacks                        *)

NextStatus ==
    \/ RequestPermissionSteps({"c1"}, {<<"n1">>}, 1)
    \/ MessagingEvents({"ACCEPTED"})
    \/ CreateOutboundSteps({"c1"}, {<<"n1">>}, StatusMaxCallRows, StatusMaxLogs)
    \/ CallStatusEvents(MissedInputs, {<<>>}, StatusMaxLogs)

SpecStatus == InitSeq /\ [][NextStatus]_vars

-----------------------------------------------------------------------------
(* SpecEvents: one permission, one outbound call, every status callback *)

NextEvents ==
    \/ RequestPermissionSteps({"c1"}, {<<"n1">>}, 1)
    \/ MessagingEvents({"ACCEPTED"})
    \/ CreateOutboundSteps({"c1"}, {<<"n1">>}, 1, EventsMaxLogs)
    \/ CallStatusEvents(StatusInputs, DurationInputs, EventsMaxLogs)
    \/ Tick(1, EventsMaxTime)

SpecEvents == InitSeq /\ [][NextEvents]_vars

-----------------------------------------------------------------------------
(* SpecConsent: permission requests handled one after another, on       *)
(* different days, and the customer's replies                             *)

NextConsent ==
    \/ RequestPermissionSteps({"c1"}, {<<"n1">>, <<"n2">>}, ConsentMaxPerms)
    \/ MessagingEvents(PayloadInputs)
    \/ Tick(1, ConsentMaxTime)

SpecConsent == InitSeq /\ [][NextConsent]_vars

-----------------------------------------------------------------------------
(* SpecWeekly: permission requests for one pair handled one after       *)
(* another, on a clock that runs past a week                              *)

NextWeekly ==
    \/ RequestPermissionSteps({"c1"}, {<<"n1">>}, WeeklyMaxPerms)
    \/ Tick(1, WeeklyMaxTime)

SpecWeekly == InitSeq /\ [][NextWeekly]_vars

-----------------------------------------------------------------------------
(* SpecNotify: one permission and outbound requests one after another,  *)
(* with a WebSocket client whose send may throw                          *)

NextNotify ==
    \/ RequestPermissionSteps({"c1"}, {<<"n1">>}, 1)
    \/ MessagingEvents({"ACCEPTED"})
    \/ CreateOutboundSteps(ContactIds, {<<"n1">>}, NotifyMaxCallRows, NotifyMaxLogs)
    \/ CreateOutboundNotifyFailures

SpecNotify == InitObserved /\ [][NextNotify]_vars

-----------------------------------------------------------------------------
(* SpecOrder: one inbound call and two call-status callbacks at a time,  *)
(* with a WebSocket client open                                           *)

NextOrder ==
    \/ InboundVoiceEvents({<<"CA", 101>>}, 1, OrderMaxLogs)
    \/ CallStatusSteps({"in-progress", "completed"}, OrderMaxLogs)

SpecOrder == InitRace /\ [][NextOrder]_vars

-----------------------------------------------------------------------------
(* SpecRecording: one inbound call, its completed callback and its      *)
(* recording callback, two handlers at a time                             *)

RecordingUrls == {<<"rec">>}

NextRecording ==
    \/ InboundVoiceEvents({<<"CA", 101>>}, 1, RecordingMaxLogs)
    \/ CallStatusSteps({"completed"}, RecordingMaxLogs)
    \/ RecordingSteps(RecordingUrls, RecordingMaxLogs)
    \/ Tick(1, RecordingMaxTime)

SpecRecording == InitRace /\ [][NextRecording]_vars

-----------------------------------------------------------------------------
(* SpecInbound: one permission, two outbound requests at a time, and the *)
(* customer's own calls, each announced any number of times              *)

NextInbound ==
    \/ RequestPermissionSteps({"c1"}, {<<"n1">>}, 1)
    \/ MessagingEvents({"ACCEPTED"})
    \/ CreateOutboundSteps({"c1"}, {<<"n1">>}, InMaxCallRows, InMaxLogs)
    \/ InboundVoiceEvents(InboundSids, InMaxCallRows, InMaxLogs)

SpecInbound == Init /\ [][NextInbound]_vars

-----------------------------------------------------------------------------
(* SpecCalls: one inbound call, its status callbacks, hangup, the status *)
(* poll and the CRM's onCallEnded                                         *)

CallsSids == {<<"CA", 101>>, UnknownSid}

NextCalls ==
    \/ InboundVoiceEvents({<<"CA", 101>>}, 1, CallsMaxLogs)
    \/ StatusEventsOfRows({"in-progress", "completed", "no-answer"}, {<<>>},
                          CallsMaxLogs)
    \/ HangupRequests(CallsSids, CallsMaxLogs)
    \/ GetStatusRequests(CallsSids)
    \/ OnCallEndedEvents
    \/ Tick(1, CallsMaxTime)

SpecCalls == InitSeq /\ [][NextCalls]_vars

-----------------------------------------------------------------------------
(* SpecExpiry: one permission and outbound requests, on a clock that     *)
(* steps onto the permission's expiresAt and past it                      *)

NextExpiry ==
    \/ RequestPermissionSteps({"c1"}, {<<"n1">>}, 1)
    \/ MessagingEvents({"ACCEPTED"})
    \/ CreateOutboundSteps({"c1"}, {<<"n1">>}, ExpiryMaxCallRows,
                           ExpiryMaxCallRows)
    \/ Tick(Week, ExpiryMaxTime)

SpecExpiry == InitSeq /\ [][NextExpiry]_vars

-----------------------------------------------------------------------------
(* SpecAuth: one permission request and the six webhook endpoints behind *)
(* the signature check, each called with and without a valid signature   *)

\* the endpoints, with the :callId of the first Call where the path has one
WebhookUrls ==
    {<<"/voice/inbound">>, <<"/call-status">>, <<"/messaging">>}
    \cup {<<route, 1>> : route \in {"/voice/outbound", "/conference", "/recording"}}

\* req.body, by endpoint
WebhookParams(route) ==
    CASE route = "/voice/inbound" ->
             {[CallSid |-> sid, From |-> <<WA, "n1">>, To |-> OurNumber] :
                  sid \in InboundSids}
      [] route = "/voice/outbound" ->
             {[CallStatus |-> st] : st \in {"answered", "busy"}}
      [] route = "/call-status" ->
             {[CallSid |-> <<"CA", 101>>, CallStatus |-> st] :
                  st \in {"in-progress", "completed"}}
      [] route = "/messaging" ->
             {[From |-> <<WA, "n1">>, Body |-> "VOICE_CALL_REQUEST",
               ButtonPayload |-> bp] : bp \in {"ACCEPTED", "REJECTED"}}
      [] route = "/conference" ->
             {[StatusCallbackEvent |-> ev] : ev \in {"start", "end"}}
      [] route = "/recording" ->
             {[RecordingUrl |-> r] : r \in RecordingUrls \cup {NoUrl}}

\* the headers a request for (url, params) arrives with: none, the
\* provider's, one computed with another key, one the provider computed for
\* other parameters
WebhookSignatures(url, params) ==
    {NoSignature, Sign(authToken, url, params), Sign("guess", url, params)}
    \cup {Sign(authToken, url, q) : q \in WebhookParams(url[1])}

WebhookRequests(maxCallRows, maxLogs) ==
    \E url \in WebhookUrls :
        \E params \in WebhookParams(url[1]) :
            \E signature \in WebhookSignatures(url, params) :
                ReceiveWebhook(Request(url, params, signature),
                               maxCallRows, maxLogs)

NextAuth ==
    \/ RequestPermissionSteps({"c1"}, {<<"n1">>}, 1)
    \/ WebhookRequests(AuthMaxCallRows, AuthMaxLogs)

SpecAuth == InitObserved /\ [][NextAuth]_vars

-----------------------------------------------------------------------------
(* SpecDrops: one permission, one inbound call, and call-status,         *)
(* conference and recording callbacks for that call and for no call      *)

NextDrops ==
    \/ RequestPermissionSteps({"c1"}, {<<"n1">>}, 1)
    \/ MessagingEvents({"ACCEPTED"})
    \/ InboundVoiceEvents({<<"CA", 101>>}, 1, DropsMaxLogs)
    \/ StatusEventsOfRows({"in-progress", "completed"}, {<<>>}, DropsMaxLogs)
    \/ CallStatusEvents({"in-progress", "completed"}, {<<>>}, DropsMaxLogs)
    \/ ConferenceEvents(DropsMaxLogs)
    \/ RecordingEvents(RecordingUrls \cup {NoUrl}, DropsMaxLogs)

SpecDrops == InitSeq /\ [][NextDrops]_vars

-----------------------------------------------------------------------------
(* SpecStranger: the calls of a contact and of a caller who is no contact, *)
(* with the CRM answering or failing                                       *)

NextStranger ==
    \/ InboundVoiceEvents(InboundSids, StrangerMaxRows, StrangerMaxRows)
    \/ InboundStrangerEvents(InboundSids, StrangerMaxRows, StrangerMaxRows)
    \/ Tick(1, StrangerMaxTime)

SpecStranger == InitSeq /\ [][NextStranger]_vars

-----------------------------------------------------------------------------
(* SpecDuration: one inbound call and its status callbacks, with and     *)
(* without a CallDuration                                                 *)

\* CallDuration as the provider sends it on successive callbacks
CallDurations == {<<>>, <<"3">>, <<"7">>}

NextDuration ==
    \/ InboundVoiceEvents({<<"CA", 101>>}, 1, DurationMaxLogs)
    \/ StatusEventsOfRows({"in-progress", "completed"}, CallDurations,
                          DurationMaxLogs)
    \/ Tick(1, DurationMaxTime)

SpecDuration == InitSeq /\ [][NextDuration]_vars

-----------------------------------------------------------------------------
(* SpecExpiryLive: SpecExpiry with the event loop running every handler  *)
(* step that is ready and the clock advancing                             *)

SpecExpiryLive ==
    /\ InitSeq
    /\ [][NextExpiry]_vars
    /\ WF_vars(NextExpiry)
    /\ WF_vars(Tick(Week, ExpiryMaxTime))

-----------------------------------------------------------------------------
(* SpecAccount: one contact with permissions for two destinations, an    *)
(* outbound call to the first and its no-answer and answered callbacks    *)

NextAccount ==
    \/ RequestPermissionSteps({"c1"}, {<<"n1">>, <<"n2">>}, 2)
    \/ MessagingEvents({"ACCEPTED"})
    \/ CreateOutboundSteps({"c1"}, {<<"n1">>}, AccountMaxCallRows,
                           AccountMaxLogs)
    \/ CallStatusEvents({"no-answer", "answered"}, {<<>>}, AccountMaxLogs)

SpecAccount == InitSeq /\ [][NextAccount]_vars

-----------------------------------------------------------------------------
(* Properties *)

Pairs == {<<c, n>> : c \in Contacts, n \in {<<"n1">>, <<"n2">>}}

\* the permissions of a pair requested in the closed window [from, to]
RequestedWithin(pair, from, to) ==
    {i \in DOMAIN perms : /\ perms[i].contactId = pair[1]
                          /\ perms[i].whatsappNumber = pair[2]
                          /\ perms[i].requestedAt >= from
                          /\ perms[i].requestedAt <= to}

\* slot p takes its first step as handler with first pc `first`
Accepted(p, first) == procs[p].pc = "idle" /\ procs'[p].pc = first

\* a REST handler answers `code` in this step
Answers(op, code) == resp' # resp /\ resp'.op = op /\ resp'.code = code

\* the callback (CallStatus st for Call row i) is handled in this step
StatusHandled(i, st) == logs' = Append(logs, NewLog(i, "status_update", st))

\* the approved permissions of the pair an outbound Call row was placed for
PermissionsUsed(call) ==
    {i \in DOMAIN perms : /\ perms[i].contactId = call.contactId
                          /\ perms[i].whatsappNumber = StripFirst(call.toNumber)
                          /\ perms[i].status = "approved"}

\* C1: once a Call's status is completed, failed, busy, no-answer or
\* canceled, no step changes it.
C1_MonotonicTerminality ==
    [][\A i \in DOMAIN calls :
          calls[i].status \in TerminalStatuses
              => calls'[i].status = calls[i].status]_vars

\* the columns of Call and CallPermission that C2 names
CallColumns(cs) ==
    [i \in DOMAIN cs |-> <<cs[i].status, cs[i].endTime, cs[i].duration>>]
PermissionColumns(ps) ==
    [i \in DOMAIN ps |-> <<ps[i].status, ps[i].callsUsed,
                           ps[i].consecutiveMissedCalls>>]

\* C2: in every reachable state, handling a call-status callback or a
\* consent reply twice leaves the Calls and CallPermissions as handling it
\* once does.
C2_IdempotentDelivery ==
    /\ \A sid \in CallSids, st \in StatusInputs, d \in DurationInputs,
          r \in RecordingInputs :
          LET once == CallStatusEffect(DB, now, sid, st, d, r)
              twice == CallStatusEffect(once, now, sid, st, d, r)
          IN  /\ CallColumns(twice.calls) = CallColumns(once.calls)
              /\ PermissionColumns(twice.perms) = PermissionColumns(once.perms)
    /\ \A f \in FromInputs, b \in BodyInputs, bp \in PayloadInputs :
          LET once == MessagingEffect(perms, now, f, b, bp)
              twice == MessagingEffect(once, now, f, b, bp)
          IN  PermissionColumns(twice) = PermissionColumns(once)

\* no 24-hour window holds more than maxRequestsPerDay permissions of a pair
DailyCapHolds ==
    \A pair \in Pairs, t \in 0..now :
        Cardinality(RequestedWithin(pair, t - Day, t)) <= maxRequestsPerDay

\* no 7-day window holds more than maxRequestsPer7Days permissions of a pair
WeeklyCapHolds ==
    \A pair \in Pairs, t \in 0..now :
        Cardinality(RequestedWithin(pair, t - Week, t)) <= maxRequestsPer7Days

\* C3: with requests handled one after another, a request for a pair that
\* already has maxRequestsPerDay permissions requested in the preceding 24
\* hours goes no further than the count, an answer 429 creates no
\* permission, and no 24-hour window holds more than maxRequestsPerDay
\* permissions of a pair.
C3_DailyCap ==
    /\ []DailyCapHolds
    /\ [][/\ \A p \in Slots :
                Accepted(p, "rp_weekly") =>
                    Cardinality(RequestedWithin(
                        <<procs'[p].contactId, procs'[p].number>>,
                        now - Day, now)) < maxRequestsPerDay
          /\ Answers("request", 429) => perms' = perms]_vars

\* C3 witness: a request was answered 429 while a permission of its pair was
\* less than a day old, and a later one for the pair was accepted.
C3_Witness ==
    /\ resp.op = "request" /\ resp.code = 429
    /\ \E i, j \in DOMAIN perms :
          /\ i < j
          /\ perms[i].contactId = resp.contactId
          /\ perms[j].contactId = resp.contactId
          /\ perms[i].whatsappNumber = resp.number
          /\ perms[j].whatsappNumber = resp.number
          /\ perms[j].requestedAt >= now - Day

\* C4: under any interleaving of permission requests, no 24-hour window
\* holds more than maxRequestsPerDay permissions of a pair and no 7-day
\* window more than maxRequestsPer7Days.
C4_AtomicRateLimit == DailyCapHolds /\ WeeklyCapHolds

\* an approved permission of exactly this pair that is not past expiresAt,
\* has calls left and fewer than four consecutive missed calls
GateOpen(contactId, number) ==
    \E i \in DOMAIN perms :
        /\ perms[i].contactId = contactId
        /\ perms[i].whatsappNumber = number
        /\ perms[i].status = "approved"
        /\ now <= perms[i].expiresAt
        /\ perms[i].callsUsed < perms[i].maxCalls
        /\ perms[i].consecutiveMissedCalls < 4

\* C5: an outbound request goes on to create its Call and to dial only if
\* such a permission exists when it is checked; an answer 403 is given only
\* when none exists, and creates no Call, writes no CallLog, dials nothing
\* and changes no permission.  Call rows, CallLog rows and dials come only
\* from a request that passed the check.
C5_OutboundGate ==
    [][/\ \A p \in Slots :
             Accepted(p, "ob_create") =>
                 GateOpen(procs'[p].contactId, StripFirst(procs'[p].number))
       /\ Answers("outbound", 403) =>
             /\ ~GateOpen(resp'.contactId, StripFirst(resp'.number))
             /\ UNCHANGED <<perms, calls, logs, dials, procs>>
       /\ (calls' # calls \/ logs' # logs \/ dials' # dials) =>
             \E p \in Slots : procs[p].pc \notin {"idle", "rp_weekly",
                                                  "rp_create", "rp_send"}]_vars

\* C5 witness: a Call was placed under an approved permission, and a request
\* for a pair without an open gate was answered 403.
C5_Witness ==
    /\ resp.op = "outbound" /\ resp.code = 403
    /\ resp.contactId \in Contacts
    /\ Len(calls) >= 1 /\ dials # {}
    /\ \E i \in DOMAIN perms : perms[i].status = "approved"

\* C6: callsUsed never exceeds maxCalls.
C6_UsageCap ==
    \A i \in DOMAIN perms : perms[i].callsUsed <= perms[i].maxCalls

\* C7: callsUsed changes only when an outbound request succeeds (answer
\* 200), and then by exactly 1 on the permission the request was checked
\* against; a request checked against a permission with callsUsed = maxCalls
\* (5) is not accepted.
C7_IncrementByOne ==
    [][/\ \A i \in DOMAIN perms :
             perms'[i].callsUsed # perms[i].callsUsed =>
                 /\ perms'[i].callsUsed = perms[i].callsUsed + 1
                 /\ resp'.op = "outbound" /\ resp'.code = 200
                 /\ \E p \in Slots : /\ procs[p].pc = "ob_increment"
                                     /\ procs[p].permId = i
                                     /\ procs'[p].pc = "idle"
       /\ \A p \in Slots :
             (procs[p].pc = "ob_increment" /\ procs'[p].pc = "idle") =>
                 /\ resp'.op = "outbound" /\ resp'.code = 200
                 /\ perms' = [perms EXCEPT ![procs[p].permId].callsUsed = @ + 1]
       /\ \A p \in Slots :
             Accepted(p, "ob_create") =>
                 perms[procs'[p].permId].callsUsed < 5]_vars

\* C7 witness: the permission has callsUsed = maxCalls = 5, nothing else
\* closes its gate, and a request against it was answered 403.
C7_Witness ==
    /\ resp.op = "outbound" /\ resp.code = 403
    /\ \E i \in DOMAIN perms :
          /\ perms[i].contactId = resp.contactId
          /\ perms[i].whatsappNumber = StripFirst(resp.number)
          /\ perms[i].status = "approved"
          /\ now <= perms[i].expiresAt
          /\ perms[i].consecutiveMissedCalls = 0
          /\ perms[i].callsUsed = 5 /\ perms[i].maxCalls = 5

\* C8: a permission whose consecutiveMissedCalls has reached 4 is expired.
C8_MissedCallExpiry ==
    \A i \in DOMAIN perms :
        perms[i].consecutiveMissedCalls >= 4 => perms[i].status = "expired"

\* C9: a permission with consecutiveMissedCalls >= 4 cannot be called
\* (canMakeCall is false), and no outbound request is accepted against it.
C9_MissedCallsBlock ==
    /\ [](\A i \in DOMAIN perms :
            perms[i].consecutiveMissedCalls >= 4 => ~canMakeCall(perms[i], now))
    /\ [][\A p \in Slots :
             Accepted(p, "ob_create") =>
                 perms[procs'[p].permId].consecutiveMissedCalls < 4]_vars

\* C9 witness: an approved, unexpired permission with calls left has four
\* consecutive missed calls, and a request against it was answered 403
\* without a Call being created for it.
C9_Witness ==
    /\ resp.op = "outbound" /\ resp.code = 403
    /\ \A q \in Slots : procs[q].pc = "idle"
    /\ \E i \in DOMAIN perms :
          /\ perms[i].contactId = resp.contactId
          /\ perms[i].whatsappNumber = StripFirst(resp.number)
          /\ perms[i].status = "approved"
          /\ now <= perms[i].expiresAt
          /\ perms[i].callsUsed < perms[i].maxCalls
          /\ perms[i].consecutiveMissedCalls >= 4
          /\ Len(calls) = perms[i].callsUsed

\* C10: when a callback reports an outbound call answered (CallStatus
\* answered or in-progress), the permission the call was placed under has
\* consecutiveMissedCalls = 0 afterwards.
C10_ConnectResetsMissed ==
    [][\A i \in DOMAIN calls, st \in {"answered", "in-progress"} :
          (StatusHandled(i, st) /\ calls[i].direction = "outbound") =>
              \A k \in PermissionsUsed(calls[i]) :
                  perms'[k].consecutiveMissedCalls = 0]_vars

\* the Call rows that hold the external call identifier sid
RowsOfSid(sid) == {i \in DOMAIN calls : calls[i].twilioCallSid = sid}

\* this step answers an inbound call event for sid
InboundAnswered(sid) ==
    /\ resp' # resp
    /\ resp'.op \in {"inbound:say", "inbound:conference"}
    /\ resp'.number = sid

\* C11: in every reachable state no two Calls hold the same external call
\* identifier, and an inbound call event whose identifier a Call holds
\* already is answered without creating a Call, however often it is delivered.
C11_UniqueExternalId ==
    /\ [](\A i, j \in DOMAIN calls :
             i # j => calls[i].twilioCallSid # calls[j].twilioCallSid)
    /\ [][\A sid \in InboundSids :
             RowsOfSid(sid) # {} /\ InboundAnswered(sid)
                 => /\ calls' = calls
                    /\ logs' = logs
                    /\ resp'.op = "inbound:say"]_vars

\* an inbound call event was refused as a duplicate, next to a second Call
C11_Witness ==
    /\ resp.op = "inbound:say"
    /\ Cardinality(RowsOfSid(resp.number)) = 1
    /\ Len(calls) >= 2
    /\ \E i \in DOMAIN calls : calls[i].direction = "outbound"

\* the approved permissions of a (contact, destination) pair
ApprovedOf(pair) ==
    {i \in DOMAIN perms : /\ perms[i].contactId = pair[1]
                          /\ perms[i].whatsappNumber = pair[2]
                          /\ perms[i].status = "approved"}

\* C12: in every reachable state at most one CallPermission of a (contact,
\* destination) pair has status approved, also when two permissions of the
\* pair were requested on different days and the customer accepts both.
C12_OneApprovedPerPair ==
    \A pair \in Pairs : Cardinality(ApprovedOf(pair)) <= 1

\* two permissions of one pair requested on different days, both prompts
\* sent, the later one approved and the earlier one still pending
C12_Witness ==
    \E i, j \in DOMAIN perms :
        /\ i < j
        /\ perms[i].contactId = perms[j].contactId
        /\ perms[i].whatsappNumber = perms[j].whatsappNumber
        /\ perms[j].requestedAt >= perms[i].requestedAt + Day
        /\ perms[i].twilioMessageSid /\ perms[j].twilioMessageSid
        /\ perms[j].status = "approved"
        /\ perms[i].status = "pending"

\* this step answers a hangup request for callSid with the HTTP status code
HangupAnswered(callSid, code) ==
    /\ resp'.op = "hangup"
    /\ resp'.number = callSid
    /\ resp'.code = code
    /\ FindCallBySid(calls, callSid) # 0

\* C13: when a hangup request on an existing Call finishes, the Call's status
\* is completed, whether the provider's terminate call succeeded (200) or
\* failed (500).
C13_HangupTerminatesLocally ==
    [][\A sid \in CallsSids, code \in {200, 500} :
          HangupAnswered(sid, code) /\ (resp' # resp \/ calls' # calls)
              => calls'[FindCallBySid(calls, sid)].status = "completed"]_vars

\* C14: a hangup request on a Call whose status is already completed, failed,
\* busy, no-answer or canceled leaves the Call's status and endTime as they
\* were.
C14_HangupIdempotentOnTerminal ==
    [][\A sid \in CallsSids :
          LET id == FindCallBySid(calls, sid)
          IN  /\ id # 0
              /\ calls[id].status \in TerminalStatuses
              /\ resp'.op = "hangup" /\ resp'.number = sid
              => /\ calls'[id].status = calls[id].status
                 /\ calls'[id].endTime = calls[id].endTime]_vars

\* the statuses a CallPermission in status st may move to
NextStatuses(st) ==
    IF st = "pending" THEN {"approved", "rejected", "expired", "failed"}
    ELSE IF st = "approved" THEN {"expired"}
    ELSE {}

\* C15: a CallPermission's status changes only from pending to approved,
\* rejected, expired or failed, and from approved to expired; rejected,
\* expired and failed never change, and nothing returns to pending.
C15_PermissionStatusMonotone ==
    [][\A i \in DOMAIN perms :
          perms'[i].status # perms[i].status
              => perms'[i].status \in NextStatuses(perms[i].status)]_vars

\* the permissions of destination number that are pending
PendingOf(number) ==
    {i \in DOMAIN perms : /\ perms[i].whatsappNumber = number
                          /\ perms[i].status = "pending"}

\* C16: in every reachable state, a consent reply from a destination that
\* has no pending permission creates no CallPermission and leaves every
\* CallPermission as it is.
C16_ReplyWithoutPendingFrame ==
    \A f \in FromInputs, b \in BodyInputs, bp \in PayloadInputs :
        PendingOf(StripFirst(f)) = {}
            => MessagingEffect(perms, now, f, b, bp) = perms

\* a destination whose permission was answered already and has none pending,
\* next to a pending permission of another destination
C16_Witness ==
    \E f \in FromInputs :
        /\ PendingOf(StripFirst(f)) = {}
        /\ \E i \in DOMAIN perms :
               /\ perms[i].whatsappNumber = StripFirst(f)
               /\ perms[i].respondedAt # Null
        /\ \E j \in DOMAIN perms :
               /\ perms[j].whatsappNumber # StripFirst(f)
               /\ perms[j].status = "pending"

\* the handlers in flight that have created permission i and not yet
\* finished sending its prompt
SendingFor(i) == {p \in Slots : procs[p].pc = "rp_send" /\ procs[p].permId = i}

HandlersOf(i) == {p \in Slots : procs[p].pc # "idle" /\ procs[p].callId = i}

\* the CallLog rows that record the failed attempt of Call row i
FailureLogged(i) ==
    {k \in DOMAIN logs : logs[k] = NewLog(i, "call_failed", "failed")}

\* C18: when the dial fails, the Call the request created goes from initiated
\* to failed in one step and a call_failed CallLog is appended for it before
\* the request is answered (500); once the request has finished, a Call whose
\* dial failed is failed and logged, never initiated.
C18_DialFailureMarksFailed ==
    /\ [][\A p \in Slots :
             /\ (procs[p].pc = "ob_markFailed" /\ procs'[p].pc # "ob_markFailed"
                    => /\ calls[procs[p].callId].status = "initiated"
                       /\ calls'[procs[p].callId].status = "failed")
             /\ (procs[p].pc = "ob_logFailed" /\ procs'[p].pc = "idle"
                    => /\ logs' = Append(logs,
                              NewLog(procs[p].callId, "call_failed", "failed"))
                       /\ resp'.code = 500)]_vars
    /\ [](\A i \in DOMAIN calls :
             calls[i].twilioCallSid = NoSid /\ HandlersOf(i) = {}
                 => /\ calls[i].status = "failed"
                    /\ FailureLogged(i) # {})

\* an outbound request has finished with 500 after its dial failed
C18_Witness ==
    /\ resp.op = "outbound" /\ resp.code = 500
    /\ \E i \in DOMAIN calls :
           /\ i \in dials
           /\ calls[i].twilioCallSid = NoSid
           /\ HandlersOf(i) = {}
           /\ calls[i].status = "failed"
           /\ FailureLogged(i) # {}

\* C19: for every permission and every time now, canMakeCall is status =
\* approved and now < expiresAt and callsUsed < maxCalls and
\* consecutiveMissedCalls < 4; at now = expiresAt it is false.
C19_CanPlaceCall ==
    \A i \in DOMAIN perms :
        canMakeCall(perms[i], now) <=>
            /\ perms[i].status = "approved"
            /\ now < perms[i].expiresAt
            /\ perms[i].callsUsed < perms[i].maxCalls
            /\ perms[i].consecutiveMissedCalls < MissedCallLimit

\* C20: once a Call's endTime is set, no step changes it: not a repeated
\* completed callback, a hangup, a status poll or the CRM's onCallEnded.
C20_EndTimeWrittenOnce ==
    [][\A i \in DOMAIN calls :
          calls[i].endTime # Null => calls'[i].endTime = calls[i].endTime]_vars

\* the pair a handler in flight works for
PairOf(p) == <<procs[p].contactId, procs[p].number>>

\* C21: with requests handled one after another, a request for a pair that
\* has maxRequestsPer7Days permissions requested in the preceding 7 days is
\* answered 429 and creates no permission, also when none of them was
\* requested in the preceding 24 hours; no 7-day window holds more than
\* maxRequestsPer7Days permissions of a pair.
C21_WeeklyCap ==
    /\ []WeeklyCapHolds
    /\ [][\A p \in Slots :
             /\ procs[p].pc = "rp_weekly"
             /\ procs'[p] # procs[p]
             /\ Cardinality(RequestedWithin(PairOf(p), now - Week, now))
                    >= maxRequestsPer7Days
             => /\ resp' = Response("request", 429, procs[p].contactId,
                                    procs[p].number)
                /\ procs'[p] = Idle
                /\ perms' = perms]_vars

\* a request was answered 429 for a pair with two permissions of the last 7
\* days and none of the last 24 hours
C21_Witness ==
    /\ resp.op = "request" /\ resp.code = 429
    /\ Cardinality(RequestedWithin(<<resp.contactId, resp.number>>,
                                   now - Week, now)) = maxRequestsPer7Days
    /\ RequestedWithin(<<resp.contactId, resp.number>>, now - Day, now) = {}

\* C22: the rate limit is a rolling window. With requests handled one after
\* another, a request is answered 429 at the 24-hour count only when a
\* permission of its pair was requested in the preceding 24 hours, and at the
\* 7-day count only when maxRequestsPer7Days were requested in the preceding
\* 7 days; a request that passes both creates a new pending permission.
C22_RollingWindow ==
    [][/\ Answers("request", 429) /\ procs' = procs
              => RequestedWithin(<<resp'.contactId, resp'.number>>,
                                 now - Day, now) # {}
       /\ \A p \in Slots :
             /\ (Accepted(p, "rp_weekly")
                    => RequestedWithin(<<procs'[p].contactId, procs'[p].number>>,
                                       now - Day, now) = {})
             /\ (procs[p].pc = "rp_weekly" /\ procs'[p] # procs[p]
                    => IF Cardinality(RequestedWithin(PairOf(p), now - Week, now))
                              < maxRequestsPer7Days
                       THEN procs'[p].pc = "rp_create"
                       ELSE /\ resp'.op = "request" /\ resp'.code = 429
                            /\ perms' = perms)
             /\ (procs[p].pc = "rp_create" /\ procs'[p] # procs[p]
                    => /\ perms' = Append(perms,
                              NewPermission(procs[p].contactId, procs[p].number,
                                            now))
                       /\ perms'[Len(perms')].status = "pending")]_vars

\* a second permission of a pair was created more than a day and less than a
\* week after the first, and its prompt was sent
C22_Witness ==
    /\ resp.op = "request" /\ resp.code = 200
    /\ \E i, j \in DOMAIN perms :
          /\ perms[i].contactId = resp.contactId
          /\ perms[j].contactId = resp.contactId
          /\ perms[i].whatsappNumber = resp.number
          /\ perms[j].whatsappNumber = resp.number
          /\ perms[j].requestedAt > perms[i].requestedAt + Day
          /\ perms[j].requestedAt < perms[i].requestedAt + Week
          /\ perms[j].status = "pending"
          /\ perms[j].twilioMessageSid

\* the Calls the provider accepted: the dial returned and its sid was saved
Dialled == {i \in DOMAIN calls : i \in dials /\ calls[i].twilioCallSid # NoSid}

\* C24: a failure to deliver a notification leaves the mutation and the
\* outcome as they are: a Call whose dial succeeded is never turned to failed
\* by the broadcast that follows, and no failed attempt is logged for it.
C24_NotificationFailureHarmless ==
    \A i \in Dialled :
        /\ calls[i].status # "failed"
        /\ FailureLogged(i) = {}

\* no call-status handler is in flight for Call row i
StatusSettled(i) ==
    \A p \in Slots :
        procs[p].pc \in {"cs_update", "cs_log", "cs_crm", "cs_notify"}
            => procs[p].callId # i

\* C25: the client receives the call_status_update messages of a Call in the
\* order the updates were committed; so once every handler for the Call has
\* finished, the latest message the client received for it carries the
\* status committed last, the one the Call has.
C25_ObserverOrder ==
    \A i \in DOMAIN calls :
        /\ StatusSettled(i)
        /\ observer.type = "call_status_update"
        /\ observer.id = i
        => observer.status = calls[i].status

\* the events of kind event with status st logged for Call row i
Logged(i, event, st) == {k \in DOMAIN logs : logs[k] = NewLog(i, event, st)}

\* no call-status or recording handler is in flight for Call row i
WebhooksSettled(i) == \A p \in Slots : procs[p].pc = "idle" \/ procs[p].callId # i

\* C26: for every interleaving of a completed call-status callback and a
\* recording callback for one Call, once both handlers have finished the
\* Call has status completed, endTime set and the recording's URL.
C26_NoLostUpdate ==
    \A i \in DOMAIN calls, u \in RecordingUrls :
        /\ WebhooksSettled(i)
        /\ Logged(i, "status_update", "completed") # {}
        /\ Logged(i, "recording_available", "") # {}
        => /\ calls[i].status = "completed"
           /\ calls[i].endTime # Null
           /\ calls[i].recordingUrl = u

\* the completed callback has committed its update from an instance read
\* before the recording's update, which is committed and logged; the row
\* holds both
C26_Witness ==
    \E p \in Slots :
        /\ procs[p].pc = "cs_log"
        /\ procs[p].CallStatus = "completed"
        /\ procs[p].call.recordingUrl = NoUrl
        /\ Logged(procs[p].callId, "recording_available", "") # {}
        /\ calls[procs[p].callId].recordingUrl \in RecordingUrls
        /\ calls[procs[p].callId].status = "completed"
        /\ calls[procs[p].callId].endTime # Null

\* the header is the one the provider computes for the request
Signed(req) == req.signature = Sign(authToken, req.url, req.params)

\* C23 -- with an auth token configured, a request to any of the six webhook
\* endpoints that carries no signature, or a signature that is not the
\* provider's for its URL and parameters, is answered 403 and leaves every
\* Call, CallPermission and CallLog row as it was.
C23_WebhookAuthentication ==
    [][\A url \in WebhookUrls :
         \A params \in WebhookParams(url[1]) :
           \A signature \in WebhookSignatures(url, params) :
             LET req == Request(url, params, signature)
             IN  ~Signed(req)
                 /\ ReceiveWebhook(req, AuthMaxCallRows, AuthMaxLogs)
                 => /\ resp'.op = "webhook" /\ resp'.code = 403
                    /\ UNCHANGED <<perms, calls, logs>>]_vars

\* a call-status request for a ringing Call and a reply for a pending
\* permission were both refused: the rows they name are as they were
C23_Witness ==
    /\ resp.op = "webhook" /\ resp.code = 403
    /\ resp.number = <<"/call-status">>
    /\ \E i \in DOMAIN calls :
           calls[i].twilioCallSid = <<"CA", 101>> /\ calls[i].status = "ringing"
    /\ \E i \in DOMAIN perms : perms[i].status = "pending"

\* the identifiers of callbacks that name no Call row
UnknownCallSids == {sid \in InboundSids \cup {UnknownSid} :
                        FindCallBySid(calls, sid) = 0}
UnknownCallIds == {0, Len(calls) + 1}

\* C27 -- a call-status callback whose CallSid no Call row holds, and a
\* conference or recording callback whose :callId is no Call row's id, leave
\* every Call row and every CallPermission row as they were and add none.
C27_UnresolvableCreatesNothing ==
    /\ \A sid \in UnknownCallSids, st \in StatusInputs, d \in DurationInputs,
          r \in RecordingUrls \cup {NoUrl} :
           LET after == CallStatusEffect(DB, now, sid, st, d, r)
           IN  after.calls = calls /\ after.perms = perms
    /\ \A id \in UnknownCallIds, ev \in ConferenceInputs :
           LET after == ConferenceEffect(DB, id, ev)
           IN  after.calls = calls /\ after.perms = perms
    /\ \A id \in UnknownCallIds, r \in RecordingUrls \cup {NoUrl} :
           LET after == RecordingEffect(DB, id, r)
           IN  after.calls = calls /\ after.perms = perms

\* a Call and an approved permission exist, callbacks for the Call have been
\* handled, and a callback arrives for a CallSid no row holds
C27_Witness ==
    /\ \E i \in DOMAIN perms : perms[i].status = "approved"
    /\ \E i \in DOMAIN calls : calls[i].status = "in-progress"
                               /\ calls[i].recordingUrl \in RecordingUrls
    /\ <<"CA", 102>> \in UnknownCallSids
    /\ Len(logs) = DropsMaxLogs

\* the CallLog rows of db after a callback are those before it and one more
OneLogAppended(after) ==
    /\ Len(after.logs) = Len(logs) + 1
    /\ SubSeq(after.logs, 1, Len(logs)) = logs

\* C29 -- every call-status, conference and recording callback received
\* appends exactly one CallLog row, whether or not a Call row matches it and
\* whether or not the same callback was handled before, and leaves the rows
\* already there as they were.
C29_AuditCompleteness ==
    /\ \A sid \in InboundSids \cup {UnknownSid}, st \in StatusInputs :
           OneLogAppended(CallStatusEffect(DB, now, sid, st, <<>>, NoUrl))
    /\ \A id \in PathCallIds, ev \in ConferenceInputs :
           OneLogAppended(ConferenceEffect(DB, id, ev))
    /\ \A id \in PathCallIds, r \in RecordingUrls \cup {NoUrl} :
           OneLogAppended(RecordingEffect(DB, id, r))

\* C28 -- an inbound call event whose CallSid no Call row holds results in
\* exactly one new Call row with that CallSid, direction inbound and status
\* ringing, also when the caller is no contact yet and the CRM lookup fails.
C28_InboundAlwaysCreates ==
    [][\A sid \in InboundSids :
         RowsOfSid(sid) = {} /\ InboundAnswered(sid)
             => /\ Len(calls') = Len(calls) + 1
                /\ SubSeq(calls', 1, Len(calls)) = calls
                /\ calls'[Len(calls')].twilioCallSid = sid
                /\ calls'[Len(calls')].direction = "inbound"
                /\ calls'[Len(calls')].status = "ringing"]_vars

\* C30 -- when the provider's terminate call fails during a hangup request
\* on an existing Call, a CallLog row for that Call records the failure.
C30_CollaboratorFailureLogged ==
    [][\A sid \in CallsSids :
          HangupAnswered(sid, 500) /\ resp' # resp
              => /\ Len(logs') = Len(logs) + 1
                 /\ logs'[Len(logs')].callId = FindCallBySid(calls, sid)]_vars

\* this step handles conference event ev for Call row id
ConferenceLogged(id, ev) ==
    /\ Len(logs') = Len(logs) + 1
    /\ logs'[Len(logs')] = NewLog(id, "conference_" \o ev, "")

\* a party joined the conference of Call row id
EverJoined(id) ==
    \E k \in DOMAIN logs : logs[k] = NewLog(id, "conference_join", "")

\* C31 -- conference start and join events leave the Call's status as it
\* was; a conference end event for a Call that is not terminal sets its
\* status to completed if a party ever joined and to no-answer if none did.
C31_BridgeEvents ==
    [][\A id \in DOMAIN calls :
          /\ \A ev \in {"start", "join"} :
                 ConferenceLogged(id, ev) => calls'[id].status = calls[id].status
          /\ ConferenceLogged(id, "end") /\ calls[id].status \notin TerminalStatuses
                 => calls'[id].status = IF EverJoined(id) THEN "completed"
                                        ELSE "no-answer"]_vars

\* this step records a customer's reply on permission row i
ReplyRecorded(i) ==
    /\ perms[i].status = "pending"
    /\ perms'[i].status \in {"approved", "rejected"}

\* C32 -- handling a messaging webhook, a consent reply or any other
\* message, leaves every Call row (status, endTime, duration, recordingUrl
\* and the rest) and the CallLog table as they were.
C32_MessagingLeavesCalls ==
    [][(\/ \E f \in FromInputs, b \in BodyInputs, bp \in PayloadInputs :
               MessagingWebhook(f, b, bp)
        \/ \E i \in DOMAIN perms : ReplyRecorded(i))
          => calls' = calls /\ logs' = logs]_vars

\* the customer's reply was the last thing announced to the client, after
\* the customer's own call had been announced and had gone in progress
C32_Witness ==
    /\ observer.type = "permission_response"
    /\ perms[observer.id].status = "approved"
    /\ \E i \in DOMAIN calls : calls[i].status = "in-progress"

\* the pending permissions of a destination, and the one created last
PendingRows(number) ==
    {i \in DOMAIN perms : perms[i].whatsappNumber = number
                          /\ perms[i].status = "pending"}
LastPending(number) ==
    CHOOSE i \in PendingRows(number) : \A j \in PendingRows(number) : j <= i

\* C33 -- a consent reply from a destination with pending permissions
\* changes exactly one permission: the pending one created last becomes
\* approved (ACCEPTED) or rejected (any other payload) with respondedAt set,
\* and every other permission stays as it was.
C33_ReplySettlesLastPending ==
    \A f \in FromInputs, bp \in {"ACCEPTED", "REJECTED"} :
        PendingRows(StripFirst(f)) # {}
            => LET after == MessagingEffect(perms, now, f, "VOICE_CALL_REQUEST", bp)
                   i == LastPending(StripFirst(f))
               IN  /\ after[i].status = IF bp = "ACCEPTED" THEN "approved"
                                                            ELSE "rejected"
                   /\ after[i].respondedAt = now
                   /\ \A j \in DOMAIN perms : j # i => after[j] = perms[j]

\* C34 -- in every reachable state a Call whose endTime is set has a
\* terminal status: no operation sets endTime on a Call that stays
\* initiated, ringing or in-progress.
C34_EndTimeOnlyOnTerminal ==
    \A i \in DOMAIN calls :
        calls[i].endTime # Null => calls[i].status \in TerminalStatuses

\* C35 -- a Call's duration is a non-negative integer, and once a status
\* update has set it to d no later status update sets it to another value,
\* larger or smaller.
C35_DurationWrittenOnce ==
    /\ [](\A i \in DOMAIN calls : calls[i].duration \in Nat)
    /\ [][\A i \in DOMAIN calls :
             calls[i].duration > 0
                 => calls'[i].duration = calls[i].duration]_vars

\* permission row i is pending or approved and its expiresAt has passed
Elapsed(i) ==
    /\ i \in DOMAIN perms
    /\ perms[i].status \in {"pending", "approved"}
    /\ now > perms[i].expiresAt

\* C36 -- a pending or approved permission whose expiresAt has passed
\* eventually has status expired, with no request needed to make it so.
C36_TtlExpiry ==
    Elapsed(1) ~> (1 \in DOMAIN perms /\ perms[1].status = "expired")

\* C37 -- when a no-answer or answered callback is handled for an outbound
\* Call to destination D of contact C, only the approved permission of
\* (C, D) may change: every other permission, and so an approved permission
\* of C for another destination, stays as it was.
C37_AccountingTargetsOwnDestination ==
    [][\A i \in DOMAIN calls, st \in {"no-answer", "answered"} :
          StatusHandled(i, st) /\ calls[i].direction = "outbound"
              => \A k \in DOMAIN perms :
                     k \notin PermissionsUsed(calls[i]) => perms'[k] = perms[k]]_vars

\* C38 -- an outbound request that has passed the permission check creates
\* its Call and reaches the dial step, also when an earlier request's dial
\* failed and left a Call without external id, and when another request in
\* flight holds a Call that has no external id yet.
C38_OutboundStaysAvailable ==
    [][\A p \in Slots :
          procs[p].pc = "ob_create" /\ procs'[p] # procs[p]
              => /\ procs'[p].pc = "ob_dial"
                 /\ Len(calls') = Len(calls) + 1
                 /\ calls'[Len(calls')].status = "initiated"]_vars

\* this step is one of outbound request p on the way of a dial that fails:
\* the permission check, Call.create, the dial that throws, and the catch
\* block's update and log
FailedDialStep(p) ==
    /\ procs'[p] # procs[p]
    /\ \/ procs[p].pc = "idle" /\ procs'[p].pc = "ob_create"
       \/ procs[p].pc = "ob_create"
       \/ procs[p].pc = "ob_dial" /\ procs'[p].pc = "ob_markFailed"
       \/ procs[p].pc \in {"ob_markFailed", "ob_logFailed"}

\* C39 -- an outbound request whose dial fails leaves the permission it was
\* checked against as it was: no step of the request, from the permission
\* check to the 500 answer, changes callsUsed, consecutiveMissedCalls or
\* status of any permission.
C39_FailedDialLeavesPermission ==
    [][\A p \in Slots : FailedDialStep(p) => perms' = perms]_vars

\* an outbound request was answered 500 after its dial failed, and the
\* permission it was checked against is approved and unused
C39_Witness ==
    /\ resp.op = "outbound" /\ resp.code = 500
    /\ \A p \in Slots : procs[p].pc = "idle"
    /\ \E i \in DOMAIN calls :
           /\ i \in dials
           /\ calls[i].status = "failed"
           /\ FailureLogged(i) # {}
           /\ \E k \in PermissionsUsed(calls[i]) :
                  /\ perms[k].callsUsed = 0
                  /\ perms[k].consecutiveMissedCalls = 0

\* the permissions of a pair requested in [from, now] whose prompt failed
FailedWithin(pair, from) ==
    {i \in RequestedWithin(pair, from, now) : perms[i].status = "failed"}

\* C40 -- a permission whose consent prompt could not be sent counts toward
\* the rate limit like any other: no request of its pair passes the 24-hour
\* count within 24 hours of it, none passes the 7-day count when it is one
\* of maxRequestsPer7Days permissions of the last 7 days, and the 429 answer
\* creates no permission.
C40_FailedRequestCounts ==
    [][\A p \in Slots :
          /\ Accepted(p, "rp_weekly")
                 => FailedWithin(<<procs'[p].contactId, procs'[p].number>>,
                                 now - Day) = {}
          /\ procs[p].pc = "rp_weekly" /\ procs'[p].pc = "rp_create"
             /\ FailedWithin(PairOf(p), now - Week) # {}
                 => Cardinality(RequestedWithin(PairOf(p), now - Week, now))
                        < maxRequestsPer7Days
          /\ procs[p].pc = "rp_weekly" /\ procs'[p].pc = "idle"
                 => /\ resp'.op = "request" /\ resp'.code = 429
                    /\ perms' = perms]_vars

\* a request was answered 429 on the 24-hour count when the pair's only
\* permission of the last 24 hours is one whose prompt failed
C40_Witness ==
    /\ resp.op = "request" /\ resp.code = 429
    /\ \A p \in Slots : procs[p].pc = "idle"
    /\ LET pair == <<resp.contactId, resp.number>>
       IN  /\ FailedWithin(pair, now - Day) # {}
           /\ RequestedWithin(pair, now - Day, now) = FailedWithin(pair, now - Day)
           /\ perms[Len(perms)].status = "failed"

=============================================================================
